---- MODULE Spec2Model ----
(***************************************************************************)
(* Lab Assistant Pro (src/proto.py): the credential store, the per-browser *)
(* session state, the page router and the task / reagent / experiment      *)
(* repositories, as a state machine.                                       *)
(*                                                                         *)
(* The persisted store is the SQLite file lab_assistant.db: one variable   *)
(* per table plus sqlite_sequence, the AUTOINCREMENT bookkeeping.  Every   *)
(* browser session has its own st.session_state and runs the script in     *)
(* its own thread, so a handler that SELECTs and later UPDATEs is two      *)
(* steps: the rows it read are kept in run[s] until its write.             *)
(***************************************************************************)
EXTENDS Integers, Sequences, FiniteSets, TLC

VARIABLES
    users,            \* table users:       rows [id, username, password]
    tasks,            \* table tasks:       rows [id, user_id, title, due_date, frequency,
                      \*                          completed]
    reagents,         \* table reagents:    rows [id, user_id, name, quantity, unit]
    experiments,      \* table experiments: rows [id, user_id, title, aim, date, reagents,
                      \*                          procedure]
    buffers,          \* table buffers:     rows [id, user_id, name]
    sqlite_sequence,  \* AUTOINCREMENT: largest id ever handed out, per table
    session_state,    \* st.session_state of each session
    selected_page,    \* the sidebar option_menu selection of each session
    run,              \* what the running script of each session has read
    msg,              \* the last st.success / st.error of each session
    auth_event,       \* history: the last authentication event of each session
    advanced,         \* history: how many acknowledgments moved a due date
    dilution_history, \* st.session_state.dilution_history of each session
    rendered          \* the lists and files the last run of a page computed

store == <<users, tasks, reagents, experiments, buffers, sqlite_sequence>>
page_data == <<dilution_history, rendered>>
vars  == <<users, tasks, reagents, experiments, buffers, sqlite_sequence,
           session_state, selected_page, run, msg, auth_event, advanced,
           dilution_history, rendered>>

----------------------------------------------------------------------------
(* Bounds of the model *)

MaxTasks == 2          \* task rows ever inserted
MaxReagents == 2       \* reagent rows ever inserted
MaxExperiments == 1    \* experiment rows ever inserted
MaxAdvance == 2        \* due-date advances per task row

Sessions  == {"s1", "s2"}
Usernames == {"alice", "bob"}
\* passwords are character sequences: the register form takes their length
Passwords == { <<"s","e","c","r","e","t">>, <<"h","u","n","t","e","r">>, <<"a","b","c">> }

Mistyped  == <<"s","e","c","r","e","r">>     \* a confirmation that matches no password

None   == "None"       \* Python None in a text field of the session
NoneId == 0            \* Python None in user_id; AUTOINCREMENT ids start at 1
NoRow  == <<>>         \* cursor.fetchone() found nothing

----------------------------------------------------------------------------
(* Credential store *)

\* hashlib.sha256(password.encode()).hexdigest(): injective on Passwords,
\* and never the plaintext
sha256(password) == <<"sha256">> \o password

\* INSERT INTO users ...; username TEXT UNIQUE makes the INSERT raise
\* sqlite3.IntegrityError (an Error), and a failed INSERT hands out no id
create_user_unchecked(tbl, seq, username, password) ==
    [ok |-> TRUE,
     users |-> tbl \cup {[id |-> seq + 1, username |-> username,
                          password |-> sha256(password)]},
     seq |-> seq + 1]

create_user(tbl, seq, username, password) ==
    IF \E u \in tbl : u.username = username
    THEN [ok |-> FALSE, users |-> tbl, seq |-> seq]
    ELSE [ok |-> TRUE,
          users |-> tbl \cup {[id |-> seq + 1, username |-> username,
                               password |-> sha256(password)]},
          seq |-> seq + 1]

\* SELECT id, username FROM users WHERE username = ? AND password = ?
verify_user_any_password(tbl, username, password) ==
    IF \E u \in tbl : u.username = username
    THEN LET u == CHOOSE u \in tbl : u.username = username
         IN  <<u.id, u.username>>
    ELSE NoRow

verify_user(tbl, username, password) ==
    LET hashed_password == sha256(password)
        found == {u \in tbl : u.username = username /\ u.password = hashed_password}
    IN  IF found # {}
        THEN LET u == CHOOSE u \in found : TRUE IN <<u.id, u.username>>
        ELSE NoRow

----------------------------------------------------------------------------
(* Session state and routing *)

MenuOptions == {"Dashboard", "Dilution Calculator", "Solution Helper", "Buffer Helper",
                "Lab Planner", "Protocol Generator", "Reagent Tracker",
                "Data Visualizer", "Help"}

page_mapping(option) ==
    CASE option = "Dashboard"           -> "dashboard"
      [] option = "Dilution Calculator" -> "dilution_calculator"
      [] option = "Solution Helper"     -> "solution_helper"
      [] option = "Buffer Helper"       -> "buffer_helper"
      [] option = "Lab Planner"         -> "lab_planner"
      [] option = "Protocol Generator"  -> "protocol_generator"
      [] option = "Reagent Tracker"     -> "reagent_tracker"
      [] option = "Data Visualizer"     -> "data_visualizer"
      [] option = "Help"                -> "help"
      [] OTHER                          -> "dashboard"

\* main(): the page function the router calls for a session
routed_page_unguarded(ss) ==
    IF ss.current_page \in {page_mapping(o) : o \in MenuOptions}
    THEN ss.current_page
    ELSE "login_page"

routed_page(ss) ==
    IF ~ss.logged_in THEN "login_page"
    ELSE IF ss.current_page \in {page_mapping(o) : o \in MenuOptions}
         THEN ss.current_page
         ELSE "nothing"

\* the state main() leaves on the first run of a new session
NewSession == [logged_in |-> FALSE, username |-> None, user_id |-> NoneId,
               current_page |-> "dashboard"]

NothingRead == [reagents |-> {}, tasks |-> {}]

\* no page of the session has computed a list or a file yet
NothingRendered == <<>>

Init ==
    /\ users = {}
    /\ tasks = {}
    /\ reagents = {}
    /\ experiments = {}
    /\ buffers = {}
    /\ sqlite_sequence = [users |-> 0, tasks |-> 0, reagents |-> 0, experiments |-> 0,
                          buffers |-> 0]
    /\ session_state = [s \in Sessions |-> NewSession]
    /\ selected_page = [s \in Sessions |-> "Dashboard"]
    /\ run = [s \in Sessions |-> NothingRead]
    /\ msg = [s \in Sessions |-> ""]
    /\ auth_event = [s \in Sessions |-> "none"]
    /\ advanced = 0
    /\ dilution_history = [s \in Sessions |-> <<>>]
    /\ rendered = [s \in Sessions |-> NothingRendered]

\* login_page, login form submitted
LoginSubmit_rejected_to_login(s, username, password) ==
    /\ ~session_state[s].logged_in
    /\ LET user == verify_user(users, username, password)
       IN  IF user # NoRow
           THEN /\ session_state' = [session_state EXCEPT ![s] =
                      [logged_in |-> TRUE, username |-> username,
                       user_id |-> user[1], current_page |-> "dashboard"]]
                /\ msg' = [msg EXCEPT ![s] = "Login successful!"]
                /\ auth_event' = [auth_event EXCEPT ![s] = "verified"]
           ELSE /\ session_state' = [session_state EXCEPT ![s].current_page = "login"]
                /\ msg' = [msg EXCEPT ![s] = "Invalid credentials"]
                /\ auth_event' = [auth_event EXCEPT ![s] = "rejected"]
    /\ selected_page' = [selected_page EXCEPT ![s] = "Dashboard"]
    /\ run' = [run EXCEPT ![s] = NothingRead]
    /\ UNCHANGED <<store, advanced, page_data>>

LoginSubmit_when_logged_in(s, username, password) ==
    /\ LET user == verify_user(users, username, password)
       IN  IF user # NoRow
           THEN /\ session_state' = [session_state EXCEPT ![s] =
                      [logged_in |-> TRUE, username |-> username,
                       user_id |-> user[1], current_page |-> "dashboard"]]
                /\ msg' = [msg EXCEPT ![s] = "Login successful!"]
                /\ auth_event' = [auth_event EXCEPT ![s] = "verified"]
           ELSE /\ session_state' = session_state
                /\ msg' = [msg EXCEPT ![s] = "Invalid credentials"]
                /\ auth_event' = [auth_event EXCEPT ![s] = "rejected"]
    /\ selected_page' = [selected_page EXCEPT ![s] = "Dashboard"]
    /\ run' = [run EXCEPT ![s] = NothingRead]
    /\ UNCHANGED <<store, advanced, page_data>>

LoginSubmit_names_unknown_user(s, username, password) ==
    /\ ~session_state[s].logged_in
    /\ LET user == verify_user(users, username, password)
       IN  IF user # NoRow
           THEN /\ session_state' = [session_state EXCEPT ![s] =
                      [logged_in |-> TRUE, username |-> username,
                       user_id |-> user[1], current_page |-> "dashboard"]]
                /\ msg' = [msg EXCEPT ![s] = "Login successful!"]
                /\ auth_event' = [auth_event EXCEPT ![s] = "verified"]
           ELSE /\ session_state' = session_state
                /\ msg' = [msg EXCEPT ![s] =
                              IF \E u \in users : u.username = username
                              THEN "Invalid credentials" ELSE "Unknown user"]
                /\ auth_event' = [auth_event EXCEPT ![s] = "rejected"]
    /\ selected_page' = [selected_page EXCEPT ![s] = "Dashboard"]
    /\ run' = [run EXCEPT ![s] = NothingRead]
    /\ UNCHANGED <<store, advanced, page_data>>

LoginSubmit(s, username, password) ==
    /\ ~session_state[s].logged_in
    /\ LET user == verify_user(users, username, password)
       IN  IF user # NoRow
           THEN /\ session_state' = [session_state EXCEPT ![s] =
                      [logged_in |-> TRUE, username |-> username,
                       user_id |-> user[1], current_page |-> "dashboard"]]
                /\ msg' = [msg EXCEPT ![s] = "Login successful!"]
                /\ auth_event' = [auth_event EXCEPT ![s] = "verified"]
           ELSE /\ session_state' = session_state
                /\ msg' = [msg EXCEPT ![s] = "Invalid credentials"]
                /\ auth_event' = [auth_event EXCEPT ![s] = "rejected"]
    \* st.rerun(): the sidebar menu is created anew with default_index=0
    /\ selected_page' = [selected_page EXCEPT ![s] = "Dashboard"]
    /\ run' = [run EXCEPT ![s] = NothingRead]
    /\ UNCHANGED <<store, advanced, page_data>>

\* login_page, register form submitted
RegisterSubmit_any_length(s, new_username, new_password, confirm_password) ==
    /\ ~session_state[s].logged_in
    /\ IF new_password # confirm_password
       THEN /\ msg' = [msg EXCEPT ![s] = "Passwords don't match!"]
            /\ UNCHANGED <<users, sqlite_sequence>>
       ELSE LET r == create_user(users, sqlite_sequence.users, new_username, new_password)
            IN  /\ users' = r.users
                /\ sqlite_sequence' = [sqlite_sequence EXCEPT !.users = r.seq]
                /\ msg' = [msg EXCEPT ![s] =
                              IF r.ok THEN "Account created! Please login."
                                      ELSE "Username already exists"]
    /\ UNCHANGED <<buffers, tasks, reagents, experiments, session_state, selected_page,
                   run, auth_event, advanced, page_data>>

RegisterSubmit_auto_login(s, new_username, new_password, confirm_password) ==
    /\ ~session_state[s].logged_in
    /\ new_password = confirm_password
    /\ Len(new_password) >= 6
    /\ LET r == create_user(users, sqlite_sequence.users, new_username, new_password)
       IN  /\ r.ok
           /\ users' = r.users
           /\ sqlite_sequence' = [sqlite_sequence EXCEPT !.users = r.seq]
           /\ session_state' = [session_state EXCEPT ![s] =
                  [logged_in |-> TRUE, username |-> new_username,
                   user_id |-> r.seq, current_page |-> "dashboard"]]
    /\ msg' = [msg EXCEPT ![s] = "Account created! Please login."]
    /\ UNCHANGED <<buffers, tasks, reagents, experiments, selected_page, run, auth_event, advanced,
                   page_data>>

RegisterSubmit(s, new_username, new_password, confirm_password) ==
    /\ ~session_state[s].logged_in
    /\ IF new_password # confirm_password
       THEN /\ msg' = [msg EXCEPT ![s] = "Passwords don't match!"]
            /\ UNCHANGED <<users, sqlite_sequence>>
       ELSE IF Len(new_password) < 6
       THEN /\ msg' = [msg EXCEPT ![s] = "Password must be >=6 characters"]
            /\ UNCHANGED <<users, sqlite_sequence>>
       ELSE LET r == create_user(users, sqlite_sequence.users, new_username, new_password)
            IN  /\ users' = r.users
                /\ sqlite_sequence' = [sqlite_sequence EXCEPT !.users = r.seq]
                /\ msg' = [msg EXCEPT ![s] =
                              IF r.ok THEN "Account created! Please login."
                                      ELSE "Username already exists"]
    /\ UNCHANGED <<buffers, tasks, reagents, experiments, session_state, selected_page,
                   run, auth_event, advanced, page_data>>

\* main(), sidebar: a menu option is picked and the script runs again
Navigate(s, option) ==
    /\ session_state[s].logged_in
    /\ selected_page' = [selected_page EXCEPT ![s] = option]
    /\ session_state' = [session_state EXCEPT ![s].current_page = page_mapping(option)]
    /\ run' = [run EXCEPT ![s] = NothingRead]
    /\ msg' = [msg EXCEPT ![s] = ""]
    /\ UNCHANGED <<store, auth_event, advanced, page_data>>

\* main(), sidebar Logout button
Logout_keeps_identity(s) ==
    /\ session_state[s].logged_in
    /\ session_state' = [session_state EXCEPT ![s].logged_in = FALSE,
                                              ![s].current_page = "login"]
    /\ run' = [run EXCEPT ![s] = NothingRead]
    /\ msg' = [msg EXCEPT ![s] = ""]
    /\ auth_event' = [auth_event EXCEPT ![s] = "logout"]
    \* the sidebar is not rendered any more: its menu is back at default_index=0
    /\ selected_page' = [selected_page EXCEPT ![s] = "Dashboard"]
    /\ UNCHANGED <<store, advanced, page_data>>

Logout(s) ==
    /\ session_state[s].logged_in
    /\ session_state' = [session_state EXCEPT ![s] =
           [logged_in |-> FALSE, username |-> None, user_id |-> NoneId,
            current_page |-> "login"]]
    /\ run' = [run EXCEPT ![s] = NothingRead]
    /\ msg' = [msg EXCEPT ![s] = ""]
    /\ auth_event' = [auth_event EXCEPT ![s] = "logout"]
    \* the sidebar is not rendered any more: its menu is back at default_index=0
    /\ selected_page' = [selected_page EXCEPT ![s] = "Dashboard"]
    /\ UNCHANGED <<store, advanced, page_data>>

----------------------------------------------------------------------------
(* States with both accounts registered and both sessions logged in *)

Registered ==
    { [id |-> 1, username |-> "alice", password |-> sha256(<<"s","e","c","r","e","t">>)],
      [id |-> 2, username |-> "bob",   password |-> sha256(<<"h","u","n","t","e","r">>)] }

LoggedInAs(u, option) ==
    [logged_in |-> TRUE, username |-> u.username, user_id |-> u.id,
     current_page |-> page_mapping(option)]

\* "s1" is alice; "s2" is a second browser of alice, or bob
InitLoggedIn(options) ==
    /\ users = Registered
    /\ tasks = {}
    /\ reagents = {}
    /\ experiments = {}
    /\ buffers = {}
    /\ sqlite_sequence = [users |-> 2, tasks |-> 0, reagents |-> 0, experiments |-> 0,
                          buffers |-> 0]
    /\ \E u2 \in Registered, o1, o2 \in options :
          /\ session_state = [s \in Sessions |->
                 IF s = "s1" THEN LoggedInAs(CHOOSE u \in Registered : u.id = 1, o1)
                             ELSE LoggedInAs(u2, o2)]
          /\ selected_page = [s \in Sessions |-> IF s = "s1" THEN o1 ELSE o2]
    /\ run = [s \in Sessions |-> NothingRead]
    /\ msg = [s \in Sessions |-> ""]
    /\ auth_event = [s \in Sessions |-> "verified"]
    /\ advanced = 0
    /\ dilution_history = [s \in Sessions |-> <<>>]
    /\ rendered = [s \in Sessions |-> NothingRendered]

\* the router calls page for session s
OnPage(s, page) == routed_page(session_state[s]) = page

\* the user the statements of session s are run for
UserOf(s) == session_state[s].user_id

\* the truth value of a str in "if submit_button and title": false for ""
truthy_any(text) == TRUE

truthy(text) == text # <<>>

----------------------------------------------------------------------------
(* Reagent repository: reagent_tracker *)

\* a text is the sequence of its characters
ReagentNames == { <<"N","a","C","l">>, <<"T","r","i","s">> }
\* st.number_input("Quantity*", min_value=0.0) of the add form and the
\* NumberColumn(min_value=0) of the data editor
Quantities   == {5, 10}
\* st.number_input("Quantity", value=...) of the update form has no min_value
UpdateQuantities == Quantities \cup {-1}
\* st.selectbox("Unit*", ["g", "mg", ...]): the first option is preselected
Units        == << <<"g">>, <<"m","g">>, <<"m","L">> >>

\* SELECT ... FROM reagents WHERE user_id = ? ORDER BY name
get_reagents_of_all(tbl, user_id) == tbl

get_reagents(tbl, user_id) == {r \in tbl : r.user_id = user_id}

\* INSERT INTO reagents (user_id, name, quantity, unit, ...) VALUES (...);
\* the unit is the option the form shows first
sql_insert_reagent(tbl, seq, user_id, name, quantity) ==
    tbl \cup {[id |-> seq + 1, user_id |-> user_id, name |-> name, quantity |-> quantity,
               unit |-> Units[1]]}

\* UPDATE reagents SET name=?, quantity=?, ... WHERE id=?

sql_update_reagent(tbl, id, name, quantity) ==
    {IF r.id = id THEN [r EXCEPT !.name = name, !.quantity = quantity] ELSE r : r \in tbl}

\* UPDATE reagents SET name=?, quantity=?, ... WHERE id=? AND user_id=?
sql_update_own_reagent(tbl, id, user_id, name, quantity) ==
    {IF r.id = id /\ r.user_id = user_id
     THEN [r EXCEPT !.name = name, !.quantity = quantity] ELSE r : r \in tbl}

\* DELETE FROM reagents WHERE id=?

sql_delete_reagent(tbl, id) == {r \in tbl : r.id # id}

\* tab2: INSERT INTO reagents for the values of the add form
InsertReagent(s, name, quantity) ==
    /\ OnPage(s, "reagent_tracker")
    /\ sqlite_sequence.reagents < MaxReagents
    /\ reagents' = sql_insert_reagent(reagents, sqlite_sequence.reagents,
                                      session_state[s].user_id, name, quantity)
    /\ sqlite_sequence' = [sqlite_sequence EXCEPT !.reagents = @ + 1]
    /\ msg' = [msg EXCEPT ![s] = "Reagent added successfully!"]
    /\ run' = [run EXCEPT ![s] = NothingRead]
    /\ UNCHANGED <<buffers, users, tasks, experiments, session_state, selected_page, auth_event,
                   advanced, page_data>>

\* a form was submitted and its handler did nothing: the script ran again
FormIgnored(s, page) ==
    /\ OnPage(s, page)
    /\ msg' = [msg EXCEPT ![s] = ""]
    /\ run' = [run EXCEPT ![s] = NothingRead]
    /\ UNCHANGED <<store, session_state, selected_page, auth_event, advanced,
                   page_data>>

\* tab2, "Add Reagent" submitted: if st.form_submit_button(...) and name
AddReagentForm(s, name, quantity) ==
    IF truthy(name) THEN InsertReagent(s, name, quantity)
                    ELSE FormIgnored(s, "reagent_tracker")

\* tab2, "Add Reagent" submitted with a name
AddReagent(s, name, quantity) ==
    /\ name \in ReagentNames
    /\ AddReagentForm(s, name, quantity)

\* the script of session s runs reagent_tracker and reads the inventory
ReagentTrackerRun(s) ==
    /\ OnPage(s, "reagent_tracker")
    /\ run' = [run EXCEPT ![s].reagents = get_reagents(reagents, session_state[s].user_id)]
    /\ msg' = [msg EXCEPT ![s] = ""]
    /\ UNCHANGED <<store, session_state, selected_page, auth_event, advanced,
                   page_data>>

\* tab3, "Update" submitted for the reagent selected from the list read
UpdateReagent(s, reagent_id, name, quantity) ==
    /\ OnPage(s, "reagent_tracker")
    /\ \E r \in run[s].reagents : r.id = reagent_id
    /\ reagents' = sql_update_reagent(reagents, reagent_id, name, quantity)
    /\ msg' = [msg EXCEPT ![s] = "Reagent updated!"]
    /\ run' = [run EXCEPT ![s] = NothingRead]
    /\ UNCHANGED <<buffers, users, tasks, experiments, sqlite_sequence, session_state,
                   selected_page, auth_event, advanced, page_data>>

\* tab3, "Delete" submitted for the reagent selected from the list read
DeleteReagent(s, reagent_id) ==
    /\ OnPage(s, "reagent_tracker")
    /\ \E r \in run[s].reagents : r.id = reagent_id
    /\ reagents' = sql_delete_reagent(reagents, reagent_id)
    /\ msg' = [msg EXCEPT ![s] = "Reagent deleted!"]
    /\ run' = [run EXCEPT ![s] = NothingRead]
    /\ UNCHANGED <<buffers, users, tasks, experiments, sqlite_sequence, session_state,
                   selected_page, auth_event, advanced, page_data>>

\* the rows of df after every row of edited_df was written back, in any order
\* (the rows of one listing have distinct ids, so the order does not matter)
save_rows(tbl, edited_df, user_id) ==
    {IF \E e \in edited_df : e.id = r.id /\ r.user_id = user_id
     THEN LET e == CHOOSE e \in edited_df : e.id = r.id
          IN  [r EXCEPT !.name = e.name, !.quantity = e.quantity]
     ELSE r : r \in tbl}

\* tab1, data editor: one row of the table read was edited
EditorSave(s, reagent_id, name, quantity) ==
    /\ OnPage(s, "reagent_tracker")
    /\ \E r \in run[s].reagents : r.id = reagent_id
    /\ LET df == run[s].reagents
           edited_df == {IF r.id = reagent_id
                         THEN [r EXCEPT !.name = name, !.quantity = quantity]
                         ELSE r : r \in df}
       IN  /\ edited_df # df
           /\ reagents' = save_rows(reagents, edited_df, session_state[s].user_id)
    /\ msg' = [msg EXCEPT ![s] = "Inventory updated successfully!"]
    /\ run' = [run EXCEPT ![s] = NothingRead]
    /\ UNCHANGED <<buffers, users, tasks, experiments, sqlite_sequence, session_state,
                   selected_page, auth_event, advanced, page_data>>

ReagentIds == 1..MaxReagents

NextReagents ==
    \/ \E s \in Sessions, n \in ReagentNames, q \in Quantities : AddReagent(s, n, q)
    \/ \E s \in Sessions : ReagentTrackerRun(s)
    \/ \E s \in Sessions, id \in ReagentIds, n \in ReagentNames, q \in UpdateQuantities :
           UpdateReagent(s, id, n, q)
    \/ \E s \in Sessions, id \in ReagentIds : DeleteReagent(s, id)
    \/ \E s \in Sessions, id \in ReagentIds, n \in ReagentNames, q \in Quantities :
           EditorSave(s, id, n, q)

\* the reagent tracker, used by two logged-in sessions
SpecReagents == InitLoggedIn({"Reagent Tracker"}) /\ [][NextReagents]_vars

----------------------------------------------------------------------------
(* Dates: a "%Y-%m-%d" string is the triple <<year, month, day>>; a datetime *)
(* is the number of days since 2024-01-01                                    *)

IsLeap(y) == (y % 4 = 0 /\ y % 100 # 0) \/ y % 400 = 0

DaysInYear(y) == IF IsLeap(y) THEN 366 ELSE 365

DaysInMonth(y, m) ==
    IF m = 2 THEN (IF IsLeap(y) THEN 29 ELSE 28)
    ELSE IF m \in {4, 6, 9, 11} THEN 30 ELSE 31

RECURSIVE DaysBeforeYear(_)
DaysBeforeYear(y) == IF y <= 2024 THEN 0 ELSE DaysBeforeYear(y - 1) + DaysInYear(y - 1)

RECURSIVE DaysBeforeMonth(_, _)
DaysBeforeMonth(y, m) == IF m <= 1 THEN 0 ELSE DaysBeforeMonth(y, m - 1) + DaysInMonth(y, m - 1)

\* datetime.datetime.strptime(s, "%Y-%m-%d")
strptime(s) == DaysBeforeYear(s[1]) + DaysBeforeMonth(s[1], s[2]) + (s[3] - 1)

RECURSIVE DateFrom(_, _, _)
DateFrom(n, y, m) ==
    IF m = 1 /\ n >= DaysInYear(y) THEN DateFrom(n - DaysInYear(y), y + 1, 1)
    ELSE IF n >= DaysInMonth(y, m) THEN DateFrom(n - DaysInMonth(y, m), y, m + 1)
    ELSE <<y, m, n + 1>>

\* datetime.strftime("%Y-%m-%d")
strftime(n) == DateFrom(n, 2024, 1)

\* timedelta(weeks=1) and timedelta(days=30), in days

timedelta(freq, s) == IF freq = "weekly" THEN 7 ELSE 30

----------------------------------------------------------------------------
(* Task repository: lab_planner *)

Frequencies == {"once", "daily", "weekly", "monthly"}
DueDates    == { <<2024, 12, 28>> }

\* def get_tasks(frequency=None, completed=False); frequency None is ""
get_tasks_unscoped(tbl, user_id, frequency, completed) ==
    {r \in tbl : /\ (frequency # "" => r.frequency = frequency)
                 /\ (~completed => ~r.completed)}

get_tasks(tbl, user_id, frequency, completed) ==
    {r \in tbl : /\ r.user_id = user_id
                 /\ (frequency # "" => r.frequency = frequency)
                 /\ (~completed => ~r.completed)}

\* INSERT INTO tasks (user_id, title, description, due_date, frequency);
\* completed INTEGER DEFAULT 0
sql_insert_task(tbl, seq, user_id, title, due_date, frequency) ==
    tbl \cup {[id |-> seq + 1, user_id |-> user_id, title |-> title,
               due_date |-> due_date, frequency |-> frequency, completed |-> FALSE]}

\* UPDATE tasks SET completed = 1 WHERE id = ?
sql_complete_task_by_delete(tbl, task_id) == {r \in tbl : r.id # task_id}

sql_complete_task(tbl, task_id) ==
    {IF r.id = task_id THEN [r EXCEPT !.completed = TRUE] ELSE r : r \in tbl}

\* UPDATE tasks SET due_date = ? WHERE id = ?
sql_set_due_date(tbl, task_id, new_date) ==
    {IF r.id = task_id THEN [r EXCEPT !.due_date = new_date] ELSE r : r \in tbl}

InsertTask(s, title, due_date, frequency, text) ==
    /\ OnPage(s, "lab_planner")
    /\ sqlite_sequence.tasks < MaxTasks
    /\ tasks' = sql_insert_task(tasks, sqlite_sequence.tasks, session_state[s].user_id,
                                title, due_date, frequency)
    /\ sqlite_sequence' = [sqlite_sequence EXCEPT !.tasks = @ + 1]
    /\ msg' = [msg EXCEPT ![s] = text]
    /\ run' = [run EXCEPT ![s] = NothingRead]
    /\ UNCHANGED <<buffers, users, reagents, experiments, session_state, selected_page,
                   auth_event, advanced, page_data>>

\* tab1, "Add Task" submitted: if submit_button and title
AddTaskForm(s, title, due_date, frequency) ==
    /\ frequency \in Frequencies
    /\ IF truthy(title)
       THEN InsertTask(s, title, due_date, frequency, "Task added successfully!")
       ELSE FormIgnored(s, "lab_planner")

\* tab2, "Add Task" submitted; frequency is the radio selection
AddRecurringTaskForm(s, title, due_date, frequency) ==
    /\ frequency \in {"weekly", "monthly"}
    /\ IF truthy(title)
       THEN InsertTask(s, title, due_date, frequency,
                       "Recurring task added successfully!")
       ELSE FormIgnored(s, "lab_planner")

\* tab3, "Add Task" submitted for the selected date
QuickAddTaskForm(s, quick_title, selected_date) ==
    /\ selected_date \in DueDates
    /\ IF truthy(quick_title)
       THEN InsertTask(s, quick_title, selected_date, "once", "Task added successfully!")
       ELSE FormIgnored(s, "lab_planner")

\* a title typed into a task form
TaskTitle == <<"P", "C", "R">>

\* tab1, "Add Task" submitted with a title
AddTask(s, due_date, frequency) == AddTaskForm(s, TaskTitle, due_date, frequency)

\* tab2, "Add Task" submitted with a title; frequency is the radio selection
AddRecurringTask(s, due_date, frequency) ==
    AddRecurringTaskForm(s, TaskTitle, due_date, frequency)

\* tab3, "Add Task" submitted with a title for the selected date
QuickAddTask(s, selected_date) == QuickAddTaskForm(s, TaskTitle, selected_date)

\* tab1, the check button of a task listed by get_tasks().  The UPDATE uses
\* nothing of the row but its id, rows are never deleted and completed is the
\* only column it sets, so reading the list and writing are one step here: a
\* write after a stale read writes what is already stored

DailyAck(s, task_id) ==
    /\ OnPage(s, "lab_planner")
    /\ \E task \in get_tasks(tasks, session_state[s].user_id, "", FALSE) :
          task.id = task_id
    /\ tasks' = sql_complete_task(tasks, task_id)
    /\ msg' = [msg EXCEPT ![s] = ""]
    /\ run' = [run EXCEPT ![s] = NothingRead]
    /\ UNCHANGED <<buffers, users, reagents, experiments, sqlite_sequence, session_state,
                   selected_page, auth_event, advanced, page_data>>

\* tab2: a click on the check button with key complete_<task_id> starts a run
\* of the script; the run lists get_tasks(frequency) for the radio selection
\* and the button of the clicked row, if that row is listed, returns True with
\* the row as it was read
RecurringRun(s, frequency, task_id) ==
    /\ OnPage(s, "lab_planner")
    /\ frequency \in {"weekly", "monthly"}
    /\ LET recurring_tasks == get_tasks(tasks, session_state[s].user_id, frequency, FALSE)
       IN  run' = [run EXCEPT ![s].tasks = {task \in recurring_tasks : task.id = task_id}]
    /\ msg' = [msg EXCEPT ![s] = ""]
    /\ UNCHANGED <<store, session_state, selected_page, auth_event, advanced,
                   page_data>>

\* tab2, the check button of a listed task
RecurringAck(s, task_id) ==
    /\ OnPage(s, "lab_planner")
    /\ advanced < MaxAdvance
    /\ \E task \in run[s].tasks :
          /\ task.id = task_id
          /\ LET new_date == strftime(strptime(task.due_date)
                                      + timedelta(task.frequency, task.due_date))
             IN  tasks' = sql_set_due_date(tasks, task_id, new_date)
    /\ advanced' = advanced + 1
    /\ msg' = [msg EXCEPT ![s] = ""]
    /\ run' = [run EXCEPT ![s] = NothingRead]
    /\ UNCHANGED <<buffers, users, reagents, experiments, sqlite_sequence, session_state,
                   selected_page, auth_event, page_data>>

TaskIds == 1..MaxTasks

NextTasks ==
    \/ \E s \in Sessions, d \in DueDates, f \in Frequencies : AddTask(s, d, f)
    \/ \E s \in Sessions, d \in DueDates, f \in Frequencies : AddRecurringTask(s, d, f)
    \/ \E s \in Sessions, d \in DueDates : QuickAddTask(s, d)
    \/ \E s \in Sessions, f \in Frequencies, id \in TaskIds : RecurringRun(s, f, id)
    \/ \E s \in Sessions, id \in TaskIds : DailyAck(s, id)
    \/ \E s \in Sessions, id \in TaskIds : RecurringAck(s, id)

\* the lab planner, used by two logged-in sessions
SpecTasks == InitLoggedIn({"Lab Planner"}) /\ [][NextTasks]_vars

----------------------------------------------------------------------------
(* Numbers as texts *)

Digits == <<"0", "1", "2", "3", "4", "5", "6", "7", "8", "9">>

\* str(n) for an int n >= 0
RECURSIVE str(_)
str(n) == IF n < 10 THEN <<Digits[n + 1]>> ELSE str(n \div 10) \o <<Digits[(n % 10) + 1]>>

\* int(text)
RECURSIVE int(_)
int(text) ==
    IF text = <<>> THEN 0
    ELSE 10 * int(SubSeq(text, 1, Len(text) - 1))
           + (CHOOSE d \in 0..9 : Digits[d + 1] = text[Len(text)])

\* repr of the float64 of a whole quantity: 5.0 is written "5.0"
repr_float(q) == str(q) \o <<".", "0">>

\* float(text), for the texts repr_float writes
float(text) ==
    LET dot == CHOOSE i \in DOMAIN text : text[i] = "."
    IN  int(SubSeq(text, 1, dot - 1))

----------------------------------------------------------------------------
(* Experiments (protocol_generator), and the read views of the pages *)

\* json.dumps of a str: between quotes, with the quote character, the
\* backslash and the line feed escaped
RECURSIVE json_escape(_)
json_escape(text) ==
    IF text = <<>> THEN <<>>
    ELSE (CASE Head(text) = "\"" -> <<"\\", "\"">>
            [] Head(text) = "\\" -> <<"\\", "\\">>
            [] Head(text) = "\n" -> <<"\\", "n">>
            [] OTHER             -> <<Head(text)>>) \o json_escape(Tail(text))

json_string_bare(text) == <<"\"">> \o text \o <<"\"">>

json_string(text) == <<"\"">> \o json_escape(text) \o <<"\"">>

\* the items of a list, separated by ", "
RECURSIVE json_join(_)
json_join(items) ==
    IF items = <<>> THEN <<>>
    ELSE IF Len(items) = 1 THEN json_string(items[1])
    ELSE json_string(Head(items)) \o <<",", " ">> \o json_join(Tail(items))

\* json.dumps(list of str)
json_dumps(items) == <<"[">> \o json_join(items) \o <<"]">>

\* json.loads: the index of the quote that closes the string whose
\* characters start at i
RECURSIVE json_string_end(_, _)
json_string_end(text, i) ==
    IF i > Len(text) THEN i
    ELSE IF text[i] = "\\" THEN json_string_end(text, i + 2)
    ELSE IF text[i] = "\"" THEN i
    ELSE json_string_end(text, i + 1)

RECURSIVE json_unescape(_)
json_unescape(raw) ==
    IF raw = <<>> THEN <<>>
    ELSE IF Head(raw) = "\\" /\ Len(raw) >= 2
    THEN <<IF raw[2] = "n" THEN "\n" ELSE raw[2]>> \o json_unescape(SubSeq(raw, 3, Len(raw)))
    ELSE <<Head(raw)>> \o json_unescape(Tail(raw))

\* the strings of a list from index i on, which is at the opening quote of
\* a string or at the closing bracket
RECURSIVE json_items(_, _)
json_items(text, i) ==
    IF i > Len(text) \/ text[i] # "\"" THEN <<>>
    ELSE LET end == json_string_end(text, i + 1)
         IN  <<json_unescape(SubSeq(text, i + 1, end - 1))>>
                 \o json_items(text, IF end < Len(text) /\ text[end + 1] = ","
                                     THEN end + 3 ELSE end + 1)

\* json.loads of the text of a list of str
json_loads(text) == json_items(text, 2)

\* reagents.append(f"{amount} {unit} {name}") for every slot of the form
reagent_lines(slots) ==
    [i \in DOMAIN slots |->
        repr_float(slots[i].amount) \o <<" ">> \o slots[i].unit \o <<" ">> \o slots[i].name]

\* if step: procedure.append(step), for every step of the form
RECURSIVE procedure_steps(_)
procedure_steps(steps) ==
    IF steps = <<>> THEN <<>>
    ELSE (IF truthy(Head(steps)) THEN <<Head(steps)>> ELSE <<>>)
            \o procedure_steps(Tail(steps))

\* "Generate Protocol" submitted: if submit_button and project_title and aim;
\* the protocol is saved and then written on the page
ProtocolForm(s, project_title, aim, date, slots, steps) ==
    IF truthy(project_title) /\ truthy(aim)
    THEN /\ OnPage(s, "protocol_generator")
         /\ sqlite_sequence.experiments < MaxExperiments
         /\ LET reagents_list == reagent_lines(slots)
                procedure == procedure_steps(steps)
            IN  /\ experiments' = experiments \cup
                       {[id |-> sqlite_sequence.experiments + 1,
                         user_id |-> session_state[s].user_id,
                         title |-> project_title, aim |-> aim, date |-> date,
                         reagents |-> json_dumps(reagents_list),
                         procedure |-> json_dumps(procedure)]}
                /\ rendered' = [rendered EXCEPT ![s] =
                       [reagents |-> reagents_list, procedure |-> procedure]]
         /\ sqlite_sequence' = [sqlite_sequence EXCEPT !.experiments = @ + 1]
         /\ msg' = [msg EXCEPT ![s] = "Protocol saved successfully!"]
         /\ run' = [run EXCEPT ![s] = NothingRead]
         /\ UNCHANGED <<buffers, users, tasks, reagents, session_state, selected_page,
                        auth_event, advanced, dilution_history>>
    ELSE FormIgnored(s, "protocol_generator")

\* a title and an aim typed into the protocol form
ProjectTitle == <<"P", "C", "R">>
Aim          == <<"a", "m", "p", "l", "i", "f", "y">>

\* the slots and the steps of a filled protocol form
FilledSlots == << [name |-> <<"N","a","C","l">>, amount |-> 5, unit |-> <<"g">>] >>
FilledSteps == << <<"m","i","x">> >>

\* "Generate Protocol" submitted with a title and an aim
SaveProtocol(s, date) ==
    ProtocolForm(s, ProjectTitle, Aim, date, FilledSlots, FilledSteps)

\* comparison of two "%Y-%m-%d" strings, as SQLite compares TEXT
date_ge(a, b) ==
    \/ a[1] > b[1]
    \/ a[1] = b[1] /\ a[2] > b[2]
    \/ a[1] = b[1] /\ a[2] = b[2] /\ a[3] >= b[3]

\* dashboard_page: the rows of ... FROM tasks WHERE user_id = ? AND
\* completed = 0 AND (due_date >= ? OR frequency != 'once')
upcoming_tasks_due_only(tbl, user_id, today) ==
    {r \in tbl : /\ r.user_id = user_id
                 /\ ~r.completed
                 /\ date_ge(r.due_date, today)}

upcoming_tasks(tbl, user_id, today) ==
    {r \in tbl : /\ r.user_id = user_id
                 /\ ~r.completed
                 /\ (date_ge(r.due_date, today) \/ r.frequency # "once")}

\* lab_planner tab3: ... FROM tasks WHERE user_id = ? AND due_date = ? AND completed = 0
daily_tasks(tbl, user_id, date_str) ==
    {r \in tbl : r.user_id = user_id /\ r.due_date = date_str /\ ~r.completed}

\* dashboard_page: the rows of ... FROM reagents WHERE user_id = ? AND quantity < 10
low_reagents_up_to_10(tbl, user_id) ==
    {r \in tbl : r.user_id = user_id /\ r.quantity <= 10}

low_reagents(tbl, user_id) ==
    {r \in tbl : r.user_id = user_id /\ r.quantity < 10}

\* dashboard_page: the rows of ... FROM experiments WHERE user_id = ?
recent_experiments(tbl, user_id) ==
    {r \in tbl : r.user_id = user_id}

\* the days on which a page is rendered
Todays == { <<2024, 12, 28>>, <<2025, 1, 2>> }

NextCreate ==
    \/ \E s \in Sessions, d \in DueDates, f \in Frequencies : AddTask(s, d, f)
    \/ \E s \in Sessions, d \in DueDates, f \in Frequencies : AddRecurringTask(s, d, f)
    \/ \E s \in Sessions, d \in DueDates : QuickAddTask(s, d)
    \/ \E s \in Sessions, n \in ReagentNames, q \in Quantities : AddReagent(s, n, q)
    \/ \E s \in Sessions, d \in DueDates : SaveProtocol(s, d)

\* the create forms of the three pages, used by two logged-in sessions
SpecCreate ==
    InitLoggedIn({"Lab Planner", "Reagent Tracker", "Protocol Generator"})
        /\ [][NextCreate]_vars

----------------------------------------------------------------------------
(* The mutating statements of the repositories, run with the session identity *)
(* and an id that is not taken from a listing                                 *)

\* UPDATE tasks SET completed = 1 WHERE id = ?
repo_complete_task(s, task_id) ==
    /\ session_state[s].logged_in
    /\ tasks' = sql_complete_task(tasks, task_id)
    /\ tasks' # tasks
    /\ UNCHANGED <<buffers, users, reagents, experiments, sqlite_sequence, session_state,
                   selected_page, run, msg, auth_event, advanced, page_data>>

\* UPDATE tasks SET due_date = ? WHERE id = ?
repo_advance_task(s, task_id) ==
    /\ session_state[s].logged_in
    /\ advanced < MaxAdvance
    /\ \E task \in tasks :
          /\ task.id = task_id
          /\ tasks' = sql_set_due_date(tasks, task_id,
                          strftime(strptime(task.due_date)
                                   + timedelta(task.frequency, task.due_date)))
    /\ advanced' = advanced + 1
    /\ UNCHANGED <<buffers, users, reagents, experiments, sqlite_sequence, session_state,
                   selected_page, run, msg, auth_event, page_data>>

\* UPDATE reagents SET ... WHERE id=?
repo_update_reagent(s, reagent_id, name, quantity) ==
    /\ session_state[s].logged_in
    /\ reagents' = sql_update_reagent(reagents, reagent_id, name, quantity)
    /\ reagents' # reagents
    /\ UNCHANGED <<buffers, users, tasks, experiments, sqlite_sequence, session_state,
                   selected_page, run, msg, auth_event, advanced, page_data>>

\* DELETE FROM reagents WHERE id=?
repo_delete_reagent(s, reagent_id) ==
    /\ session_state[s].logged_in
    /\ reagents' = sql_delete_reagent(reagents, reagent_id)
    /\ reagents' # reagents
    /\ UNCHANGED <<buffers, users, tasks, experiments, sqlite_sequence, session_state,
                   selected_page, run, msg, auth_event, advanced, page_data>>

NextRepo ==
    \/ \E s \in Sessions, d \in DueDates, f \in Frequencies : AddTask(s, d, f)
    \/ \E s \in Sessions, n \in ReagentNames, q \in Quantities : AddReagent(s, n, q)
    \/ \E s \in Sessions, id \in TaskIds : repo_complete_task(s, id)
    \/ \E s \in Sessions, id \in TaskIds : repo_advance_task(s, id)
    \/ \E s \in Sessions, id \in ReagentIds, n \in ReagentNames, q \in Quantities :
           repo_update_reagent(s, id, n, q)
    \/ \E s \in Sessions, id \in ReagentIds : repo_delete_reagent(s, id)

\* the repository statements called with any id
SpecRepo == InitLoggedIn({"Lab Planner", "Reagent Tracker"}) /\ [][NextRepo]_vars

----------------------------------------------------------------------------
(* reagent_tracker tab1: the inventory table, its Status column and the CSV  *)
(* file of the export button                                                 *)

MaxExportRows == 2     \* reagent rows of the inventories that are exported

\* the code point of a character, for the characters of the model's texts
ord(c) ==
    CASE c = "\"" -> 34 [] c = "," -> 44 [] c = "C" -> 67 [] c = "N" -> 78
      [] c = "T" -> 84 [] c = "a" -> 97 [] c = "i" -> 105 [] c = "l" -> 108
      [] c = "r" -> 114 [] c = "s" -> 115 [] OTHER -> 0

\* a <= b for two TEXT values, as SQLite's BINARY collation compares them
RECURSIVE text_le(_, _)
text_le(a, b) ==
    IF a = <<>> THEN TRUE
    ELSE IF b = <<>> THEN FALSE
    ELSE IF Head(a) # Head(b) THEN ord(Head(a)) < ord(Head(b))
    ELSE text_le(Tail(a), Tail(b))

\* row a is not behind row b under the ORDER BY term
row_le(term, a, b) ==
    CASE term = "name"         -> text_le(a.name, b.name)
      [] term = "due_date"     -> date_ge(b.due_date, a.due_date)
      [] term = "date DESC"    -> date_ge(a.date, b.date)
      [] term = "quantity ASC" -> a.quantity <= b.quantity

\* ... ORDER BY term: the lists of the rows of a set in that order; rows
\* that the term does not tell apart come in any order
RECURSIVE order_by(_, _)
order_by(rows, term) ==
    IF rows = {} THEN {<<>>}
    ELSE UNION { {<<m>> \o rest : rest \in order_by(rows \ {m}, term)} :
                 m \in {m \in rows : \A r \in rows : row_le(term, m, r)} }

\* ... LIMIT n
limit(rows, n) == SubSeq(rows, 1, IF Len(rows) < n THEN Len(rows) ELSE n)

\* ... ORDER BY name
order_by_name(rows) == order_by(rows, "name")

\* the Status column; the leading symbol of the code's texts is written "#"
LowStock == <<"#", " ", "L", "o", "w", " ", "S", "t", "o", "c", "k">>
InStock  == <<"#", " ", "I", "n", " ", "S", "t", "o", "c", "k">>

status_of(x) == IF x < 10 THEN LowStock ELSE InStock

\* the columns of df that the rows of the model carry
ExportColumns == << <<"I","D">>, <<"N","a","m","e">>,
                    <<"Q","u","a","n","t","i","t","y">>, <<"U","n","i","t">>,
                    <<"S","t","a","t","u","s">> >>

\* a field as csv.writer writes it (QUOTE_MINIMAL, doublequote)
RECURSIVE double_quotes(_)
double_quotes(field) ==
    IF field = <<>> THEN <<>>
    ELSE (IF Head(field) = "\"" THEN <<"\"", "\"">> ELSE <<Head(field)>>)
            \o double_quotes(Tail(field))

csv_field_bare(field) == field

csv_field(field) ==
    IF \E i \in DOMAIN field : field[i] \in {",", "\"", "\n", "\r"}
    THEN <<"\"">> \o double_quotes(field) \o <<"\"">>
    ELSE field

RECURSIVE csv_line(_)
csv_line(fields) ==
    IF Len(fields) = 1 THEN csv_field(fields[1]) \o <<"\n">>
    ELSE csv_field(Head(fields)) \o <<",">> \o csv_line(Tail(fields))

RECURSIVE csv_lines(_)
csv_lines(records) ==
    IF records = <<>> THEN <<>> ELSE csv_line(Head(records)) \o csv_lines(Tail(records))

\* DataFrame.to_csv(index=False): the header line, then a line per row
to_csv(df) ==
    csv_line(ExportColumns)
        \o csv_lines([i \in DOMAIN df |->
               <<str(df[i].id), df[i].name, repr_float(df[i].quantity),
                 df[i].unit, df[i].status>>])

\* a CSV reader (csv.reader, RFC 4180).  The reader is at the "start" of a
\* field, in a "plain" field, in a "quoted" field, or behind a "quote"
\* character met in a quoted field
csv_mode(mode, c) ==
    IF mode = "quoted" THEN (IF c = "\"" THEN "quote" ELSE "quoted")
    ELSE IF mode = "quote" /\ c = "\"" THEN "quoted"
    ELSE IF mode = "start" /\ c = "\"" THEN "quoted"
    ELSE IF c \in {",", "\n"} THEN "start"
    ELSE "plain"

\* the index, from i on, of the first character of stops that is not quoted
RECURSIVE csv_scan(_, _, _, _)
csv_scan(text, i, mode, stops) ==
    IF i > Len(text) THEN i
    ELSE IF mode # "quoted" /\ text[i] \in stops THEN i
    ELSE csv_scan(text, i + 1, csv_mode(mode, text[i]), stops)

\* the characters of a quoted field behind its opening quote
RECURSIVE csv_unquote(_, _)
csv_unquote(raw, mode) ==
    IF raw = <<>> THEN <<>>
    ELSE IF mode = "quoted" /\ Head(raw) = "\""
    THEN csv_unquote(Tail(raw), "quote")
    ELSE <<Head(raw)>> \o csv_unquote(Tail(raw), IF mode = "quote" /\ Head(raw) # "\""
                                                   THEN "plain"
                                                   ELSE IF mode = "quote" THEN "quoted"
                                                   ELSE mode)

csv_value(raw) ==
    IF raw # <<>> /\ Head(raw) = "\"" THEN csv_unquote(Tail(raw), "quoted") ELSE raw

\* the fields of the text of one record
RECURSIVE csv_fields(_)
csv_fields(line) ==
    LET end == csv_scan(line, 1, "start", {","})
    IN  IF end > Len(line) THEN <<csv_value(line)>>
        ELSE <<csv_value(SubSeq(line, 1, end - 1))>>
                \o csv_fields(SubSeq(line, end + 1, Len(line)))

\* the records of a text
RECURSIVE csv_reader(_)
csv_reader(text) ==
    IF text = <<>> THEN <<>>
    ELSE LET end == csv_scan(text, 1, "start", {"\n"})
         IN  <<csv_fields(SubSeq(text, 1, end - 1))>>
                 \o csv_reader(SubSeq(text, end + 1, Len(text)))

\* tab1 of one run of reagent_tracker: df with its Status column, and the
\* data of the "Export as CSV" button; nothing of it without reagents
InventoryTabRun(s) ==
    /\ OnPage(s, "reagent_tracker")
    /\ get_reagents(reagents, session_state[s].user_id) # {}
    /\ \E listed \in order_by_name(get_reagents(reagents, session_state[s].user_id)) :
          LET df == [i \in DOMAIN listed |->
                        [id |-> listed[i].id, name |-> listed[i].name,
                         quantity |-> listed[i].quantity, unit |-> listed[i].unit,
                         status |-> status_of(listed[i].quantity)]]
          IN  rendered' = [rendered EXCEPT ![s] = [df |-> df, csv |-> to_csv(df)]]
    /\ msg' = [msg EXCEPT ![s] = ""]
    /\ UNCHANGED <<store, session_state, selected_page, run, auth_event, advanced,
                   dilution_history>>

\* texts a name field can hold: with the separator, with the quote character
ExportNames == { <<"N","a","C","l">>, <<"a",",","T">>, <<"\"","N","a","\"">>, <<",">> }

\* alice on "s1" and the user with id u2 on "s2", on the pages of the menu
\* options o1 and o2, with task rows and reagent rows that were stored before
InitStored(task_rows, reagent_rows, u2, o1, o2) ==
    /\ users = Registered
    /\ tasks = task_rows
    /\ reagents = reagent_rows
    /\ experiments = {}
    /\ buffers = {}
    /\ sqlite_sequence = [users |-> 2, tasks |-> Cardinality(task_rows),
                          reagents |-> Cardinality(reagent_rows), experiments |-> 0,
                          buffers |-> 0]
    /\ session_state = [s \in Sessions |->
           IF s = "s1" THEN LoggedInAs(CHOOSE u \in Registered : u.id = 1, o1)
                       ELSE LoggedInAs(CHOOSE u \in Registered : u.id = u2, o2)]
    /\ selected_page = [s \in Sessions |-> IF s = "s1" THEN o1 ELSE o2]
    /\ run = [s \in Sessions |-> NothingRead]
    /\ msg = [s \in Sessions |-> ""]
    /\ auth_event = [s \in Sessions |-> "verified"]
    /\ advanced = 0
    /\ dilution_history = [s \in Sessions |-> <<>>]
    /\ rendered = [s \in Sessions |-> NothingRendered]

\* the inventories of up to MaxExportRows rows, of either user
InitInventory ==
    \E n \in 0..MaxExportRows :
        \E name \in [1..n -> ExportNames], quantity \in [1..n -> Quantities],
           unit \in [1..n -> {Units[1], Units[3]}], user_id \in [1..n -> {1, 2}] :
            InitStored({}, {[id |-> i, user_id |-> user_id[i], name |-> name[i],
                             quantity |-> quantity[i], unit |-> unit[i]] : i \in 1..n},
                       2, "Reagent Tracker", "Reagent Tracker")

NextExport == \E s \in Sessions : InventoryTabRun(s)

\* the inventory tab rendered for stored inventories
SpecExport == InitInventory /\ [][NextExport]_vars

----------------------------------------------------------------------------
(* dilution_calculator.  A number of a number_input is the fraction          *)
(* <<numerator, denominator>> in lowest terms; min_value=0.0 keeps it >= 0   *)

MaxHistory == 2        \* entries of one session's dilution_history

RECURSIVE gcd(_, _)
gcd(a, b) == IF b = 0 THEN a ELSE gcd(b, a % b)

frac(n, d) == LET g == gcd(n, d) IN <<n \div g, d \div g>>

StockConcentrations == { <<0, 1>>, <<2, 1>>, <<3, 1>> }
FinalConcentrations == { <<0, 1>>, <<1, 2>> }
FinalVolumes        == { <<100, 1>> }

\* v1 = (c2 * v2) / c1, for c1 # 0
dilution_v1_sum(c1, v2, c2) ==
    frac((c2[1] * v2[2] + v2[1] * c2[2]) * c1[2], c2[2] * v2[2] * c1[1])

dilution_v1(c1, v2, c2) == frac(c2[1] * v2[1] * c1[2], c2[2] * v2[2] * c1[1])

\* f"{v1:.2f}": the number of hundredths nearest to v1, a tie going to the
\* even one
format_2f(v) ==
    LET twice == 200 * v[1]
        down  == twice \div (2 * v[2])
        rest  == twice % (2 * v[2])
    IN  IF rest > v[2] \/ (rest = v[2] /\ down % 2 = 1) THEN down + 1 ELSE down

\* the "Calculate" button
Calculate(s, c1, v2, c2) ==
    /\ OnPage(s, "dilution_calculator")
    /\ Len(dilution_history[s]) < MaxHistory
    /\ IF c1[1] # 0
       THEN LET v1 == dilution_v1(c1, v2, c2)
            IN  /\ msg' = [msg EXCEPT ![s] = "You need to dilute"]
                /\ rendered' = [rendered EXCEPT ![s] = [v1 |-> v1]]
                /\ dilution_history' = [dilution_history EXCEPT ![s] =
                       Append(@, [stock_conc |-> c1, final_conc |-> c2,
                                  final_vol |-> v2, stock_vol |-> format_2f(v1)])]
       ELSE \* ZeroDivisionError, raised before anything is shown or appended
            /\ msg' = [msg EXCEPT ![s] = "Stock concentration cannot be zero!"]
            /\ rendered' = [rendered EXCEPT ![s] = NothingRendered]
            /\ UNCHANGED dilution_history
    /\ UNCHANGED <<store, session_state, selected_page, run, auth_event, advanced>>

\* the "Clear History" button, shown while the history is not empty
ClearHistory(s) ==
    /\ OnPage(s, "dilution_calculator")
    /\ dilution_history[s] # <<>>
    /\ dilution_history' = [dilution_history EXCEPT ![s] = <<>>]
    /\ msg' = [msg EXCEPT ![s] = ""]
    /\ rendered' = [rendered EXCEPT ![s] = NothingRendered]
    /\ UNCHANGED <<store, session_state, selected_page, run, auth_event, advanced>>

NextDilution ==
    \/ \E s \in Sessions, c1 \in StockConcentrations, v2 \in FinalVolumes,
          c2 \in FinalConcentrations : Calculate(s, c1, v2, c2)
    \/ \E s \in Sessions : ClearHistory(s)

\* the dilution calculator, used by two logged-in sessions
SpecDilution == InitLoggedIn({"Dilution Calculator"}) /\ [][NextDilution]_vars

----------------------------------------------------------------------------
(* Storage failures: sqlite3.connect raises, so that create_connection shows *)
(* "Database connection error" and returns None, or a statement raises       *)
(* sqlite3.Error.  msg[s] is the last box of the page: an st.error, or the   *)
(* exception Streamlit shows for a script that ended in an uncaught one      *)

StoreFailures == {"connect", "statement"}

\* the names dashboard_page assigns in its try block, in the order of the
\* three SELECTs, and reads afterwards in the layout
DashboardNames == <<"upcoming_tasks", "recent_experiments", "low_reagents">>

\* the names that are bound when the layout starts: none without a connection
\* (the block under "if conn is not None" is skipped), and those assigned
\* before the statement that raised; failed = 0 is a run where none raises
dashboard_bound(conn, failed) ==
    IF conn = None THEN {}
    ELSE {DashboardNames[k] : k \in {k \in 1..3 : failed = 0 \/ k < failed}}

\* one run of dashboard_page on the day today: the three lists of the
\* layout, or the exception of the first name read that is not bound
DashboardRun(s, today, conn, failed) ==
    /\ OnPage(s, "dashboard")
    /\ conn = None => failed = 0
    /\ LET bound == dashboard_bound(conn, failed)
           user_id == session_state[s].user_id
       IN  IF \E k \in 1..3 : DashboardNames[k] \notin bound
           THEN /\ msg' = [msg EXCEPT ![s] = "UnboundLocalError"]
                /\ rendered' = [rendered EXCEPT ![s] = NothingRendered]
           ELSE /\ msg' = [msg EXCEPT ![s] = ""]
                /\ \E u \in order_by(upcoming_tasks(tasks, user_id, today), "due_date"),
                      e \in order_by(recent_experiments(experiments, user_id), "date DESC"),
                      l \in order_by(low_reagents(reagents, user_id), "quantity ASC") :
                      rendered' = [rendered EXCEPT ![s] =
                          [today |-> today,
                           upcoming_tasks |-> limit(u, 5),
                           recent_experiments |-> limit(e, 3),
                           low_reagents |-> limit(l, 3)]]
    /\ run' = [run EXCEPT ![s] = NothingRead]
    /\ UNCHANGED <<store, session_state, selected_page, auth_event, advanced,
                   dilution_history>>

\* lab_planner tab1, "Add Task" submitted with a title while the store fails
AddTaskFails(s, failure) ==
    /\ OnPage(s, "lab_planner")
    /\ msg' = [msg EXCEPT ![s] = IF failure = "connect"
                                 THEN "Database connection error"
                                 ELSE "Error adding task"]
    /\ run' = [run EXCEPT ![s] = NothingRead]
    /\ UNCHANGED <<store, session_state, selected_page, auth_event, advanced,
                   page_data>>

\* reagent_tracker tab2, "Add Reagent" submitted with a name while the store
\* fails: without a connection conn.execute raises AttributeError, which the
\* handler of Exception reports like a failed INSERT
AddReagentFails(s, failure) ==
    /\ OnPage(s, "reagent_tracker")
    /\ failure \in StoreFailures
    /\ msg' = [msg EXCEPT ![s] = "Error adding reagent"]
    /\ run' = [run EXCEPT ![s] = NothingRead]
    /\ UNCHANGED <<store, session_state, selected_page, auth_event, advanced,
                   page_data>>

Connections == {"conn", None}

NextFailures ==
    \/ \E s \in Sessions, today \in Todays, conn \in Connections, failed \in 0..3 :
           DashboardRun(s, today, conn, failed)
    \/ \E s \in Sessions, failure \in StoreFailures : AddTaskFails(s, failure)
    \/ \E s \in Sessions, failure \in StoreFailures : AddReagentFails(s, failure)

\* the pages run while the store may fail
SpecFailures ==
    InitLoggedIn({"Dashboard", "Lab Planner", "Reagent Tracker"})
        /\ [][NextFailures]_vars

----------------------------------------------------------------------------
(* The dashboard rendered for stored tables *)

\* no storage failure: a connection, and no statement raises
NextDashboard ==
    \E s \in Sessions, today \in Todays : DashboardRun(s, today, "conn", 0)

MaxViewTasks == 7      \* task rows of alice in the tables the dashboard lists

\* due dates around the days of Todays, and later ones, two rows a day
EarlyDate(i) == <<2024, 12, 22 + i>>
LateDate(i)  == <<2025, 1, 10 - (i \div 2)>>

\* the task rows with id i that the tables hold
ViewTasks(i) ==
    << [id |-> i, user_id |-> 1, title |-> TaskTitle, due_date |-> EarlyDate(i),
        frequency |-> "once", completed |-> FALSE],
       [id |-> i, user_id |-> 1, title |-> TaskTitle, due_date |-> EarlyDate(i),
        frequency |-> "weekly", completed |-> FALSE],
       [id |-> i, user_id |-> 1, title |-> TaskTitle, due_date |-> LateDate(i),
        frequency |-> "once", completed |-> FALSE],
       [id |-> i, user_id |-> 1, title |-> TaskTitle, due_date |-> LateDate(i),
        frequency |-> "monthly", completed |-> TRUE] >>

\* alice on the dashboard, with MaxViewTasks task rows of hers and one of
\* bob stored
InitDashboardTasks ==
    \E k \in [1..MaxViewTasks -> 1..4] :
        InitStored({ViewTasks(i)[k[i]] : i \in 1..MaxViewTasks}
                       \cup {[id |-> MaxViewTasks + 1, user_id |-> 2, title |-> TaskTitle,
                              due_date |-> EarlyDate(1), frequency |-> "weekly",
                              completed |-> FALSE]},
                   {}, 2, "Dashboard", "Help")

\* the dashboard rendered for stored task tables
SpecDashboardTasks == InitDashboardTasks /\ [][NextDashboard]_vars

MaxViewReagents == 4   \* reagent rows of alice in the inventories that are listed

\* the names of the rows, by id
ViewNames == << <<"s">>, <<"r">>, <<"l">>, <<"i">>, <<"a">>, <<"T">> >>

\* the quantities the row with id i can have: low ones, 10 and more
ViewQuantities(i) == <<i, 9, 10, 11>>

\* alice on the dashboard in one browser and on the reagent tracker in
\* another, with MaxViewReagents reagent rows of hers and one of bob stored
InitDashboardReagents ==
    \E k \in [1..MaxViewReagents -> 1..4] :
        InitStored({},
                   {[id |-> i, user_id |-> 1, name |-> ViewNames[i],
                     quantity |-> ViewQuantities(i)[k[i]], unit |-> Units[1]] :
                        i \in 1..MaxViewReagents}
                       \cup {[id |-> MaxViewReagents + 1, user_id |-> 2,
                              name |-> ViewNames[MaxViewReagents + 1],
                              quantity |-> 0, unit |-> Units[1]]},
                   1, "Dashboard", "Reagent Tracker")

NextDashboardReagents ==
    \/ NextDashboard
    \/ \E s \in Sessions : InventoryTabRun(s)

\* the dashboard and the inventory tab rendered for stored inventories
SpecDashboardReagents == InitDashboardReagents /\ [][NextDashboardReagents]_vars

----------------------------------------------------------------------------
(* Buffers (buffer_helper), and every handler that writes to a table *)

MaxBuffers == 1        \* buffer rows ever inserted

\* INSERT INTO buffers (user_id, name, ph, components, preparation)
SaveBuffer(s, name, text) ==
    /\ OnPage(s, "buffer_helper")
    /\ sqlite_sequence.buffers < MaxBuffers
    /\ buffers' = buffers \cup {[id |-> sqlite_sequence.buffers + 1,
                                 user_id |-> session_state[s].user_id, name |-> name]}
    /\ sqlite_sequence' = [sqlite_sequence EXCEPT !.buffers = @ + 1]
    /\ msg' = [msg EXCEPT ![s] = text]
    /\ run' = [run EXCEPT ![s] = NothingRead]
    /\ UNCHANGED <<users, tasks, reagents, experiments, session_state, selected_page,
                   auth_event, advanced, page_data>>

\* Tris Buffer tab, "Calculate Recipe"
SaveTrisBuffer(s) ==
    /\ session_state[s].logged_in
    /\ SaveBuffer(s, "Tris", "Buffer recipe saved to your database!")

\* Custom Buffer tab, "Save Custom Buffer"
SaveCustomBuffer(s) ==
    /\ session_state[s].logged_in
    /\ SaveBuffer(s, "Custom Buffer", "Custom buffer saved to your database!")

\* the pages with a handler that writes to a table
WritingPages == {"Lab Planner", "Reagent Tracker", "Protocol Generator", "Buffer Helper"}

\* two new sessions on a fresh database, or both sessions on one writing page
InitRows == Init \/ \E option \in WritingPages : InitLoggedIn({option})

\* every statement of the code that writes to a table, with one value for
\* each text and number that is stored
NextRows ==
    \/ \E s \in Sessions, u \in Usernames :
           RegisterSubmit(s, u, <<"s","e","c","r","e","t">>, <<"s","e","c","r","e","t">>)
    \/ \E s \in Sessions, d \in DueDates : AddTask(s, d, "once")
    \/ \E s \in Sessions, d \in DueDates : AddRecurringTask(s, d, "monthly")
    \/ \E s \in Sessions, d \in DueDates : QuickAddTask(s, d)
    \/ \E s \in Sessions, id \in TaskIds : RecurringRun(s, "monthly", id)
    \/ \E s \in Sessions, id \in TaskIds : DailyAck(s, id)
    \/ \E s \in Sessions, id \in TaskIds : RecurringAck(s, id)
    \/ \E s \in Sessions : AddReagent(s, <<"N","a","C","l">>, 5)
    \/ \E s \in Sessions : ReagentTrackerRun(s)
    \/ \E s \in Sessions, id \in ReagentIds : UpdateReagent(s, id, <<"N","a","C","l">>, 10)
    \/ \E s \in Sessions, id \in ReagentIds : DeleteReagent(s, id)
    \/ \E s \in Sessions, id \in ReagentIds : EditorSave(s, id, <<"N","a","C","l">>, 10)
    \/ \E s \in Sessions, d \in DueDates : SaveProtocol(s, d)
    \/ \E s \in Sessions : SaveTrisBuffer(s)
    \/ \E s \in Sessions : SaveCustomBuffer(s)

SpecRows == InitRows /\ [][NextRows]_vars

----------------------------------------------------------------------------
(* The create forms, submitted with and without their required texts *)

\* what a text_input of a create form can hold: nothing, a text, a blank
FormTexts == { <<>>, TaskTitle, <<" ">> }

\* nothing, or a text
RequiredTexts == { <<>>, TaskTitle }

NextForms ==
    \/ \E s \in Sessions, title \in FormTexts, d \in DueDates :
           AddTaskForm(s, title, d, "once")
    \/ \E s \in Sessions, title \in RequiredTexts, d \in DueDates :
           AddRecurringTaskForm(s, title, d, "weekly")
    \/ \E s \in Sessions, title \in RequiredTexts, d \in DueDates :
           QuickAddTaskForm(s, title, d)
    \/ \E s \in Sessions, name \in RequiredTexts : AddReagentForm(s, name, 5)
    \/ \E s \in Sessions, title \in {<<>>, ProjectTitle}, aim \in {<<>>, Aim},
          d \in DueDates : ProtocolForm(s, title, aim, d, FilledSlots, FilledSteps)
    \/ \E s \in Sessions : ReagentTrackerRun(s)
    \/ \E s \in Sessions, id \in ReagentIds : DeleteReagent(s, id)

\* the create forms of the three pages and the delete of the reagent tracker
SpecForms ==
    InitLoggedIn({"Lab Planner", "Reagent Tracker", "Protocol Generator"})
        /\ [][NextForms]_vars

----------------------------------------------------------------------------
(* The protocol form, submitted with filled reagent slots and steps *)

\* texts of a step: plain ones, and ones with the characters of the JSON
\* syntax (quote, backslash, the ", " between two items, a bracket)
StepMix   == <<"m", "i", "x">>
StepAdd   == <<"a", "d", "d">>
StepQuote == <<"a", "\"", ",", " ", "\"", "b">>
StepSlash == <<"]", "\\">>

\* the steps of a form, in the order of the form; <<>> is a step left empty
StepLists == { <<StepMix>>, <<StepMix, <<>>, StepAdd>>, <<StepAdd, StepMix>>,
               << <<>> >>, << <<>>, StepMix, <<>>, StepMix >>,
               <<StepQuote, StepSlash>>, <<StepSlash, <<>>, StepQuote>>,
               <<StepAdd, StepAdd, StepMix>> }

\* the reagent slots of a form, in the order of the form; a slot left as it
\* is has no name and the amount 0
SlotLists ==
    { FilledSlots,
      << [name |-> <<>>, amount |-> 0, unit |-> <<"g">>],
         [name |-> <<"N","a","C","l">>, amount |-> 5, unit |-> <<"g">>] >>,
      << [name |-> <<"T","r","i","s">>, amount |-> 10, unit |-> <<"m","L">>],
         [name |-> <<"N","a","C","l">>, amount |-> 5, unit |-> <<"g">>] >>,
      << [name |-> <<"N","a","C","l">>, amount |-> 5, unit |-> <<"g">>],
         [name |-> <<"T","r","i","s">>, amount |-> 10, unit |-> <<"m","L">>],
         [name |-> <<"\"","H","2","O","\"">>, amount |-> 0, unit |-> <<"m","L">>] >> }

NextProtocol ==
    \E s \in Sessions, d \in DueDates, slots \in SlotLists, steps \in StepLists :
        ProtocolForm(s, ProjectTitle, Aim, d, slots, steps)

\* the protocol generator, used by two logged-in sessions
SpecProtocol == InitLoggedIn({"Protocol Generator"}) /\ [][NextProtocol]_vars

----------------------------------------------------------------------------
(* The router: the sidebar, the Quick Actions of the dashboard and the page *)
(* that main() calls                                                        *)

\* the buttons under "Quick Actions" and the page each one asks for
QuickActions == {"protocol_generator", "buffer_helper", "lab_planner", "data_visualizer"}

\* dashboard_page, a Quick Action button: it sets current_page and calls
\* st.rerun(); the run that follows starts in main(), where the sidebar menu
\* returns its selection and current_page is set from it before the router
\* reads it
QuickAction(s, target) ==
    /\ OnPage(s, "dashboard")
    /\ target \in QuickActions
    /\ LET clicked == [session_state[s] EXCEPT !.current_page = target]
       IN  session_state' = [session_state EXCEPT ![s] =
               [clicked EXCEPT !.current_page = page_mapping(selected_page[s])]]
    /\ run' = [run EXCEPT ![s] = NothingRead]
    /\ msg' = [msg EXCEPT ![s] = ""]
    /\ UNCHANGED <<store, selected_page, auth_event, advanced, page_data>>

\* a database with both accounts and a task of each, and two new sessions
InitRouter ==
    /\ users = Registered
    /\ tasks = sql_insert_task(
                   sql_insert_task({}, 0, 1, TaskTitle, <<2024, 12, 28>>, "weekly"),
                   1, 2, TaskTitle, <<2024, 12, 28>>, "weekly")
    /\ reagents = {}
    /\ experiments = {}
    /\ buffers = {}
    /\ sqlite_sequence = [users |-> 2, tasks |-> 2, reagents |-> 0, experiments |-> 0,
                          buffers |-> 0]
    /\ session_state = [s \in Sessions |-> NewSession]
    /\ selected_page = [s \in Sessions |-> "Dashboard"]
    /\ run = [s \in Sessions |-> NothingRead]
    /\ msg = [s \in Sessions |-> ""]
    /\ auth_event = [s \in Sessions |-> "none"]
    /\ advanced = 0
    /\ dilution_history = [s \in Sessions |-> <<>>]
    /\ rendered = [s \in Sessions |-> NothingRendered]

NextRouter ==
    \/ \E s \in Sessions, u \in Usernames :
           \E p \in {<<"s","e","c","r","e","t">>, <<"h","u","n","t","e","r">>} :
               LoginSubmit(s, u, p)
    \/ \E s \in Sessions, o \in MenuOptions : Navigate(s, o)
    \/ \E s \in Sessions, target \in QuickActions : QuickAction(s, target)
    \/ \E s \in Sessions : DashboardRun(s, <<2024, 12, 28>>, "conn", 0)
    \/ \E s \in Sessions : Logout(s)

\* login, the sidebar, the dashboard and logout, on a database with rows
SpecRouter == InitRouter /\ [][NextRouter]_vars

NextAuth ==
    \/ \E s \in Sessions, u \in Usernames, p \in Passwords : LoginSubmit(s, u, p)
    \/ \E s \in Sessions, u \in Usernames, p \in Passwords :
           \E c \in {p, Mistyped} : RegisterSubmit(s, u, p, c)
    \/ \E s \in Sessions, o \in MenuOptions : Navigate(s, o)
    \/ \E s \in Sessions : Logout(s)

\* the credential store and the session layer, from a fresh database
SpecAuth == Init /\ [][NextAuth]_vars

\* every handler of the application
Next == \/ NextAuth \/ NextReagents \/ NextTasks \/ NextCreate \/ NextDilution
        \/ NextFailures \/ NextExport
        \/ \E s \in Sessions : SaveTrisBuffer(s) \/ SaveCustomBuffer(s)
        \/ \E s \in Sessions, target \in QuickActions : QuickAction(s, target)

Spec == Init /\ [][Next]_vars

----------------------------------------------------------------------------
(* Claims about the credential store and the session *)

\* C1: registering a new username with a password makes verify_user return
\* that user's (id, username) for exactly that password and nothing for every
\* other password; stored rows never change afterwards.
C1_RegisterThenVerify ==
    [][ /\ users' # users =>
             \A s \in Sessions, u \in Usernames, p, c \in Passwords :
                 RegisterSubmit(s, u, p, c) =>
                     \A q \in Passwords :
                         verify_user(users', u, q) =
                             IF q = p
                             THEN <<(CHOOSE r \in users' : r.username = u).id, u>>
                             ELSE NoRow
        /\ users \subseteq users' ]_vars

C1_Witness ==
    \E s, s2 \in Sessions :
        /\ session_state[s].logged_in
        /\ msg[s] = "Login successful!"
        /\ \E r \in users : r.id = session_state[s].user_id
                            /\ r.username = session_state[s].username
        /\ msg[s2] = "Invalid credentials"

\* C2: the users table never holds two rows with one username, and
\* registering an existing username is reported as "Username already exists"
\* and leaves the users table (and so the first user's hash) as it was.
C2_DuplicateUsername ==
    /\ [](\A a, b \in users : a.username = b.username => a = b)
    /\ [][ \A u \in Usernames :
             (\E r \in users : r.username = u) =>
                 \A s \in Sessions, p \in Passwords :
                     (Len(p) >= 6 /\ RegisterSubmit(s, u, p, p)) =>
                         /\ msg'[s] = "Username already exists"
                         /\ users' = users ]_vars

C2_Witness ==
    \E s \in Sessions : /\ msg[s] = "Username already exists"
                         /\ Cardinality(users) = 2

\* C9: a session starts unauthenticated; logged_in is true only while the
\* last authentication event of the session is an accepted verify_user, and
\* it turns true only in a login step whose verify_user found the row.
C9_LoggedInOnlyByVerify ==
    /\ \A s \in Sessions : ~session_state[s].logged_in
    /\ [](\A s \in Sessions :
             session_state[s].logged_in <=> auth_event[s] = "verified")
    /\ [][ \A s \in Sessions :
             (~session_state[s].logged_in /\ session_state'[s].logged_in) =>
                 \E u \in Usernames, p \in Passwords :
                     /\ LoginSubmit(s, u, p)
                     /\ \E r \in users : /\ r.username = u
                                          /\ r.password = sha256(p)
                                          /\ session_state'[s].user_id = r.id
                                          /\ session_state'[s].username = u ]_vars

C9_Witness ==
    \E s, s2 \in Sessions :
        /\ session_state[s].logged_in /\ auth_event[s] = "verified"
        /\ ~session_state[s2].logged_in /\ auth_event[s2] = "rejected"

\* C10: Logout leaves the session unauthenticated with no identity and the
\* login view active, the router then calls login_page, and the store is
\* untouched.
C10_Logout ==
    [][ \A s \in Sessions :
          Logout(s) =>
              /\ session_state'[s] = [logged_in |-> FALSE, username |-> None,
                                      user_id |-> NoneId, current_page |-> "login"]
              /\ routed_page(session_state'[s]) = "login_page"
              /\ store' = store ]_vars

C10_Witness ==
    \E s \in Sessions :
        /\ auth_event[s] = "logout"
        /\ ~session_state[s].logged_in
        /\ session_state[s].current_page = "login"
        /\ users # {}

\* C11: a failed login has one outcome: whether the username is not
\* registered or the password is wrong, the step shows "Invalid credentials",
\* leaves the session state and the store as they were, and every state a
\* failed attempt can lead to is one any other failed attempt leads to.
C11_FailedLoginUniform ==
    [][ \A u1 \in Usernames, p1 \in Passwords :
          verify_user(users, u1, p1) = NoRow =>
              \A s \in Sessions :
                  LoginSubmit(s, u1, p1) =>
                      /\ msg'[s] = "Invalid credentials"
                      /\ session_state' = session_state
                      /\ store' = store
                      /\ \A u2 \in Usernames, p2 \in Passwords :
                            verify_user(users, u2, p2) = NoRow =>
                                LoginSubmit(s, u2, p2) ]_vars

\* one username is registered and the other is not, so both kinds of failed
\* login are possible, and a login was rejected
C11_Witness ==
    \E s \in Sessions :
        /\ auth_event[s] = "rejected"
        /\ msg[s] = "Invalid credentials"
        /\ \E u1, u2 \in Usernames :
              /\ \E r \in users : r.username = u1
              /\ \A p \in Passwords : verify_user(users, u2, p) = NoRow
              /\ \E p \in Passwords : verify_user(users, u1, p) = NoRow

\* C24: the user_id of an authenticated session is the id of a users row
\* whose username is the session's username; a logout leaves user_id and
\* username None, and they stay None while the session is unauthenticated;
\* while a session stays authenticated its user_id and username do not
\* change.
C24_SessionIdentity ==
    /\ [](\A s \in Sessions :
             session_state[s].logged_in =>
                 \E r \in users : /\ r.id = session_state[s].user_id
                                  /\ r.username = session_state[s].username)
    /\ [][ \A s \in Sessions :
             /\ (session_state[s].logged_in /\ ~session_state'[s].logged_in) =>
                    /\ session_state'[s].user_id = NoneId
                    /\ session_state'[s].username = None
             /\ (session_state[s].logged_in = session_state'[s].logged_in) =>
                    /\ session_state'[s].user_id = session_state[s].user_id
                    /\ session_state'[s].username = session_state[s].username ]_vars

\* bob is logged in, with his row's id, on a database that holds alice too,
\* while the other session was logged out and then had a login rejected
C24_Witness ==
    \E a, b \in Sessions :
        /\ session_state[a].logged_in /\ session_state[a].username = "bob"
        /\ session_state[a].user_id = 2
        /\ \E r \in users : r.username = "alice" /\ r.id = 1
        /\ ~session_state[b].logged_in /\ auth_event[b] = "rejected"
        /\ session_state[b].current_page = "login"
        /\ session_state[b].user_id = NoneId

\* C25: for a session that is not authenticated the router calls login_page,
\* whatever current_page holds, and no step of such a session is a step of a
\* page behind the login (the dashboard and its lists, the sidebar, a Quick
\* Action, Logout); for an authenticated session current_page is one of the
\* nine page names of the router.
C25_RouterGate ==
    /\ [](\A s \in Sessions :
             IF session_state[s].logged_in
             THEN session_state[s].current_page \in
                      {"dashboard", "dilution_calculator", "solution_helper",
                       "buffer_helper", "lab_planner", "protocol_generator",
                       "reagent_tracker", "data_visualizer", "help"}
             ELSE routed_page(session_state[s]) = "login_page")
    /\ [][ \A s \in Sessions :
             ~session_state[s].logged_in =>
                 /\ rendered'[s] = rendered[s]
                 /\ ~DashboardRun(s, <<2024, 12, 28>>, "conn", 0)
                 /\ ~Logout(s)
                 /\ \A o \in MenuOptions : ~Navigate(s, o)
                 /\ \A target \in QuickActions : ~QuickAction(s, target) ]_vars

\* a session that listed alice's task on the dashboard is logged out, with
\* current_page "login", and the other session is new, with current_page
\* "dashboard", and had a login rejected
C25_Witness ==
    \E a, b \in Sessions :
        /\ ~session_state[a].logged_in /\ session_state[a].current_page = "login"
        /\ "upcoming_tasks" \in DOMAIN rendered[a]
        /\ Len(rendered[a].upcoming_tasks) = 1
        /\ ~session_state[b].logged_in /\ session_state[b].current_page = "dashboard"
        /\ auth_event[b] = "rejected"

\* C26: a click on a Quick Action of the dashboard, with the sidebar menu
\* left as it is, makes the router call the page of that button in the run
\* that follows.
C26_QuickAction ==
    [][ \A s \in Sessions, target \in QuickActions :
          QuickAction(s, target) => routed_page(session_state'[s]) = target ]_vars

\* C27: a registration whose confirmation differs from the password, or
\* whose password has fewer than 6 characters, adds no users row and shows
\* an error; a registration that is accepted adds exactly one row, with the
\* username of the form, and every registration leaves the session state as
\* it was, so the session is still unauthenticated.
C27_RegisterValidation ==
    [][ \A s \in Sessions, u \in Usernames, p \in Passwords :
          \A c \in {p, Mistyped} :
              RegisterSubmit(s, u, p, c) =>
                  /\ session_state' = session_state
                  /\ ~session_state'[s].logged_in
                  /\ IF c # p \/ Len(p) < 6
                     THEN /\ users' = users
                          /\ msg'[s] \in {"Passwords don't match!",
                                          "Password must be >=6 characters"}
                     ELSE \/ /\ msg'[s] = "Account created! Please login."
                             /\ \E r \in users' :
                                   /\ r \notin users
                                   /\ users' = users \cup {r}
                                   /\ r.username = u
                          \/ /\ msg'[s] = "Username already exists"
                             /\ users' = users ]_vars

\* one account was registered; one session was then refused a password of
\* 3 characters and the other a confirmation that differs, and no session
\* is authenticated
C27_Witness ==
    \E a, b \in Sessions :
        /\ Cardinality(users) = 1
        /\ msg[a] = "Password must be >=6 characters"
        /\ msg[b] = "Passwords don't match!"
        /\ \A s \in Sessions : ~session_state[s].logged_in /\ auth_event[s] = "none"

\* C28: a login attempt, accepted or not, leaves every table and the
\* AUTOINCREMENT bookkeeping as they were; a rejected one also leaves
\* logged_in, username, user_id and current_page of the session, and the
\* state of every other session, as they were.
C28_FailedLoginFrame ==
    [][ \A s \in Sessions, u \in Usernames, p \in Passwords :
          LoginSubmit(s, u, p) =>
              /\ users' = users /\ tasks' = tasks /\ reagents' = reagents
              /\ experiments' = experiments /\ buffers' = buffers
              /\ sqlite_sequence' = sqlite_sequence
              /\ ~(\E r \in users : r.username = u /\ r.password = sha256(p)) =>
                    /\ session_state'[s].logged_in = session_state[s].logged_in
                    /\ session_state'[s].username = session_state[s].username
                    /\ session_state'[s].user_id = session_state[s].user_id
                    /\ session_state'[s].current_page = session_state[s].current_page
                    /\ \A o \in Sessions \ {s} : session_state'[o] = session_state[o]
        ]_vars

\* a login was rejected in a new session (current_page "dashboard") and in
\* a session that was logged out before (current_page "login"), on a
\* database with an account
C28_Witness ==
    \E a, b \in Sessions :
        /\ users # {}
        /\ auth_event[a] = "rejected" /\ session_state[a].current_page = "dashboard"
        /\ auth_event[b] = "rejected" /\ session_state[b].current_page = "login"
        /\ msg[a] = "Invalid credentials" /\ msg[b] = "Invalid credentials"

\* C12: a handler that runs while the store cannot be opened or a statement
\* raises ends with an error message on the page, never with an uncaught
\* exception, and leaves the store as it was; dashboard_page in particular.
C12_StorageFailureSurfaced ==
    [][ \A s \in Sessions :
          (\/ \E failure \in StoreFailures :
                 AddTaskFails(s, failure) \/ AddReagentFails(s, failure)
           \/ \E today \in Todays, conn \in Connections, failed \in 0..3 :
                 /\ conn = None \/ failed # 0
                 /\ DashboardRun(s, today, conn, failed)) =>
              /\ msg'[s] \in {"Database connection error", "Error adding task",
                              "Error adding reagent", "Error fetching dashboard data"}
              /\ store' = store ]_vars

\* C13: for a stock concentration c1 # 0 the calculation yields the v1 with
\* v1 * c1 = c2 * v2 (c1 = 2, c2 = 1/2, v2 = 100 give 25) and appends one
\* entry with that volume to the history; for c1 = 0 it shows "Stock
\* concentration cannot be zero!", raises nothing further and appends
\* nothing.
C13_Dilution ==
    /\ dilution_v1(<<2, 1>>, <<100, 1>>, <<1, 2>>) = <<25, 1>>
    /\ [][ \A s \in Sessions, c1 \in StockConcentrations, v2 \in FinalVolumes,
             c2 \in FinalConcentrations :
               Calculate(s, c1, v2, c2) =>
                  IF c1[1] # 0
                  THEN /\ rendered'[s].v1[1] * c1[1] * c2[2] * v2[2]
                             = rendered'[s].v1[2] * c1[2] * c2[1] * v2[1]
                       /\ Len(dilution_history'[s]) = Len(dilution_history[s]) + 1
                       /\ dilution_history'[s][Len(dilution_history'[s])].stock_vol
                             = format_2f(rendered'[s].v1)
                  ELSE /\ msg'[s] = "Stock concentration cannot be zero!"
                       /\ dilution_history' = dilution_history ]_vars

\* a session calculated 25 from (2, 1/2, 100) and then was refused c1 = 0
C13_Witness ==
    \E s \in Sessions :
        /\ msg[s] = "Stock concentration cannot be zero!"
        /\ Len(dilution_history[s]) = 1
        /\ dilution_history[s][1] = [stock_conc |-> <<2, 1>>, final_conc |-> <<1, 2>>,
                                     final_vol |-> <<100, 1>>, stock_vol |-> 2500]

\* C15: the CSV file of the export button, read back, has the column names
\* as its first record and then one record per row of the inventory table,
\* in the table's order, with the row's name, quantity and unit, also for
\* names that contain the separator or the quote character.
C15_CsvRoundTrip ==
    \A s \in Sessions :
        "csv" \in DOMAIN rendered[s] =>
            LET df == rendered[s].df
                records == csv_reader(rendered[s].csv)
            IN  /\ Len(records) = Len(df) + 1
                /\ records[1] = ExportColumns
                /\ \A i \in DOMAIN df :
                      /\ Len(records[i + 1]) = Len(ExportColumns)
                      /\ records[i + 1][2] = df[i].name
                      /\ float(records[i + 1][3]) = df[i].quantity
                      /\ records[i + 1][4] = df[i].unit

\* an exported inventory of two rows with a quote character in one name and
\* a separator in the other
C15_Witness ==
    \E s \in Sessions :
        /\ "csv" \in DOMAIN rendered[s]
        /\ Len(rendered[s].df) = 2
        /\ \E i \in 1..Len(rendered[s].df[1].name) : rendered[s].df[1].name[i] = "\""
        /\ \E i \in 1..Len(rendered[s].df[2].name) : rendered[s].df[2].name[i] = ","

\* C17: the upcoming-tasks list of a dashboard run holds only tasks of the
\* session user that are not completed and are due today or later or are
\* not once-tasks, each once, in ascending due date; it has 5 rows, or all of
\* them if they are fewer, and no row left out is due before a listed one.
C17_UpcomingTasks ==
    [][ \A s \in Sessions :
          (rendered'[s] # rendered[s] /\ "upcoming_tasks" \in DOMAIN rendered'[s]) =>
              LET view == rendered'[s].upcoming_tasks
                  today == rendered'[s].today
                  upcoming == {t \in tasks :
                                 /\ t.user_id = UserOf(s)
                                 /\ ~t.completed
                                 /\ (date_ge(t.due_date, today) \/ t.frequency # "once")}
              IN  /\ \A i \in DOMAIN view : view[i] \in upcoming
                  /\ \A i, j \in DOMAIN view : i < j =>
                        /\ view[i] # view[j]
                        /\ date_ge(view[j].due_date, view[i].due_date)
                  /\ Len(view) = IF Cardinality(upcoming) < 5
                                 THEN Cardinality(upcoming) ELSE 5
                  /\ \A t \in upcoming :
                        (\A i \in DOMAIN view : view[i] # t) =>
                            \A i \in DOMAIN view : date_ge(t.due_date, view[i].due_date)
        ]_vars

\* a list of 5 rows that starts with an overdue weekly task, of a table
\* that holds a sixth row to list, an overdue once-task and a task of the
\* other user
C17_Witness ==
    \E s \in Sessions :
        /\ "upcoming_tasks" \in DOMAIN rendered[s]
        /\ Len(rendered[s].upcoming_tasks) = 5
        /\ Cardinality(upcoming_tasks(tasks, UserOf(s), rendered[s].today)) > 5
        /\ \E t \in tasks : t.user_id # UserOf(s)
        /\ rendered[s].upcoming_tasks[1].frequency = "weekly"
        /\ ~date_ge(rendered[s].upcoming_tasks[1].due_date, rendered[s].today)
        /\ \E t \in tasks : /\ t.user_id = UserOf(s) /\ t.frequency = "once"
                             /\ ~t.completed
                             /\ ~date_ge(t.due_date, rendered[s].today)


\* C18: the low-reagents list of a dashboard run holds only reagents of the
\* session user with a quantity below 10, each once, in ascending quantity;
\* it has 3 rows, or all of them if they are fewer, and no row left out has
\* a smaller quantity than a listed one.  The inventory table lists every
\* reagent of the session user and its Status column says low stock exactly
\* for the rows with a quantity below 10.
C18_LowReagents ==
    [][ \A s \in Sessions :
          /\ (rendered'[s] # rendered[s] /\ "low_reagents" \in DOMAIN rendered'[s]) =>
                LET view == rendered'[s].low_reagents
                    low == {r \in reagents : r.user_id = UserOf(s) /\ r.quantity < 10}
                IN  /\ \A i \in DOMAIN view : view[i] \in low
                    /\ \A i, j \in DOMAIN view : i < j =>
                          /\ view[i] # view[j]
                          /\ view[i].quantity <= view[j].quantity
                    /\ Len(view) = IF Cardinality(low) < 3 THEN Cardinality(low) ELSE 3
                    /\ \A r \in low :
                          (\A i \in DOMAIN view : view[i] # r) =>
                              \A i \in DOMAIN view : view[i].quantity <= r.quantity
          /\ (rendered'[s] # rendered[s] /\ "df" \in DOMAIN rendered'[s]) =>
                LET df == rendered'[s].df
                    own == {r \in reagents : r.user_id = UserOf(s)}
                IN  /\ {df[i].id : i \in DOMAIN df} = {r.id : r \in own}
                    /\ Len(df) = Cardinality(own)
                    /\ \A i \in DOMAIN df :
                          /\ df[i].status = LowStock <=> df[i].quantity < 10
                          /\ df[i].status \in {LowStock, InStock}
                          /\ \E r \in own : r.id = df[i].id /\ r.quantity = df[i].quantity
        ]_vars

\* a dashboard list of 3 rows of an inventory with four low rows and a low
\* row of the other user, while the inventory table of the other browser
\* marks a row with quantity 9 as low
C18_Witness ==
    \E a, b \in Sessions :
        /\ "low_reagents" \in DOMAIN rendered[a]
        /\ Len(rendered[a].low_reagents) = 3
        /\ Cardinality(low_reagents(reagents, UserOf(a))) > 3
        /\ \E r \in reagents : r.user_id # UserOf(a) /\ r.quantity < 10
        /\ "df" \in DOMAIN rendered[b]
        /\ \E i \in DOMAIN rendered[b].df :
              rendered[b].df[i].quantity = 9 /\ rendered[b].df[i].status = LowStock

\* C22: the reagents text stored for an experiment decodes to one entry per
\* reagent slot of the form, in slot order, each being the slot's amount,
\* unit and name; the procedure text decodes to the non-empty steps of the
\* form in their order: every decoded step is a step of the form, the steps
\* keep their relative positions, and the only steps left out are empty.
C22_StoredSequences ==
    [][ \A s \in Sessions, d \in DueDates, slots \in SlotLists, steps \in StepLists :
          ProtocolForm(s, ProjectTitle, Aim, d, slots, steps) =>
              \A r \in experiments' \ experiments :
                  LET stored_reagents == json_loads(r.reagents)
                      stored_procedure == json_loads(r.procedure)
                  IN  /\ Len(stored_reagents) = Len(slots)
                      /\ \A i \in DOMAIN slots :
                            stored_reagents[i] =
                                repr_float(slots[i].amount) \o <<" ">> \o slots[i].unit
                                    \o <<" ">> \o slots[i].name
                      /\ \E at \in [DOMAIN stored_procedure -> DOMAIN steps] :
                            /\ \A j, k \in DOMAIN at : j < k => at[j] < at[k]
                            /\ \A k \in DOMAIN at : /\ stored_procedure[k] = steps[at[k]]
                                                     /\ stored_procedure[k] # <<>>
                            /\ \A i \in DOMAIN steps :
                                  (\A k \in DOMAIN at : at[k] # i) => steps[i] = <<>>
        ]_vars

\* an experiment was stored from a form whose second step was empty and
\* whose other steps hold quotes, a backslash and a bracket, with three
\* reagent slots, and the page shows the two steps that were kept
C22_Witness ==
    \E s \in Sessions, r \in experiments :
        /\ json_loads(r.procedure) = <<StepSlash, StepQuote>>
        /\ Len(json_loads(r.reagents)) = 3
        /\ "procedure" \in DOMAIN rendered[s]
        /\ rendered[s].procedure = <<StepSlash, StepQuote>>

----------------------------------------------------------------------------
(* Claims about the reagent and task repositories *)

ids(tbl) == {r.id : r \in tbl}

\* C20: no step removes an id from the users, tasks, experiments or buffers
\* table, and a step that removes an id from the reagents table is a
\* submitted Delete of the update tab.
C20_OnlyReagentDelete ==
    [][ /\ ids(users) \subseteq ids(users')
        /\ ids(tasks) \subseteq ids(tasks')
        /\ ids(experiments) \subseteq ids(experiments')
        /\ ids(buffers) \subseteq ids(buffers')
        /\ ~(ids(reagents) \subseteq ids(reagents')) =>
              \E s \in Sessions, id \in ReagentIds :
                  /\ DeleteReagent(s, id)
                  /\ ids(reagents') = ids(reagents) \ {id} ]_vars

\* a reagent was deleted: the table holds fewer rows than ids were handed out
C20_Witness ==
    /\ \E s \in Sessions : msg[s] = "Reagent deleted!"
    /\ Cardinality(reagents) < sqlite_sequence.reagents


\* tbl2 is tbl and one more row, which is of user_id and has an id that was
\* never handed out before (seq is the largest id handed out so far)
inserted_one(tbl, tbl2, seq, user_id) ==
    \E r \in tbl2 : /\ r \notin tbl
                     /\ tbl2 = tbl \cup {r}
                     /\ r.user_id = user_id
                     /\ r.id \notin ids(tbl)
                     /\ r.id > seq

\* C21: a create form submitted with an empty title or name (for an
\* experiment: an empty title or an empty aim) leaves every table as it was;
\* submitted with these texts it inserts exactly one row, into its own table,
\* owned by the session user, with an id never handed out before; so no task,
\* reagent or experiment row ever has an empty title or name.
C21_RequiredTexts ==
    /\ []( /\ \A r \in tasks : r.title # <<>>
           /\ \A r \in reagents : r.name # <<>>
           /\ \A r \in experiments : r.title # <<>> /\ r.aim # <<>> )
    /\ [][ \A s \in Sessions, text \in FormTexts \cup {<<>>, ProjectTitle}, d \in DueDates :
             /\ (\/ AddTaskForm(s, text, d, "once")
                 \/ AddRecurringTaskForm(s, text, d, "weekly")
                 \/ QuickAddTaskForm(s, text, d)) =>
                   IF text = <<>> THEN store' = store
                   ELSE /\ inserted_one(tasks, tasks', sqlite_sequence.tasks, UserOf(s))
                        /\ \A r \in tasks' \ tasks : r.title = text
                        /\ <<users, reagents, experiments, buffers>>'
                              = <<users, reagents, experiments, buffers>>
             /\ AddReagentForm(s, text, 5) =>
                   IF text = <<>> THEN store' = store
                   ELSE /\ inserted_one(reagents, reagents', sqlite_sequence.reagents,
                                        UserOf(s))
                        /\ \A r \in reagents' \ reagents : r.name = text
                        /\ <<users, tasks, experiments, buffers>>'
                              = <<users, tasks, experiments, buffers>>
             /\ \A aim \in {<<>>, Aim} :
                   ProtocolForm(s, text, aim, d, FilledSlots, FilledSteps) =>
                       IF text = <<>> \/ aim = <<>> THEN store' = store
                       ELSE /\ inserted_one(experiments, experiments',
                                            sqlite_sequence.experiments, UserOf(s))
                            /\ \A r \in experiments' \ experiments :
                                  r.title = text /\ r.aim = aim
                            /\ <<users, tasks, reagents, buffers>>'
                                  = <<users, tasks, reagents, buffers>> ]_vars

\* alice added a reagent after another one was deleted; bob, in the other
\* session, added a task with a blank title and then submitted a form that
\* was ignored
C21_Witness ==
    /\ \E r \in reagents :
          /\ r.id = sqlite_sequence.reagents
          /\ \E id \in 1..(r.id - 1) : id \notin ids(reagents)
    /\ \E s \in Sessions :
          /\ UserOf(s) = 2
          /\ \E r \in tasks : r.user_id = 2 /\ r.title = <<" ">>
          /\ msg[s] = ""

\* C23: a task completion, a due-date advance, a reagent update, an editor
\* save or a reagent delete that a session submits for an id of its own
\* listing leaves every row of another user as it was, however the sessions
\* interleave; no step changes the user_id of a row, and no inserted row
\* gets an id that was handed out before.
C23_OwnRowsOnly ==
    [][ /\ \A s \in Sessions :
              (\/ \E id \in TaskIds : DailyAck(s, id) \/ RecurringAck(s, id)
               \/ \E id \in ReagentIds :
                     \/ DeleteReagent(s, id)
                     \/ UpdateReagent(s, id, <<"N","a","C","l">>, 10)
                     \/ EditorSave(s, id, <<"N","a","C","l">>, 10)) =>
                  /\ \A r \in tasks : r.user_id # UserOf(s) => r \in tasks'
                  /\ \A r \in reagents : r.user_id # UserOf(s) => r \in reagents'
        /\ \A r \in tasks, r2 \in tasks' : r.id = r2.id => r.user_id = r2.user_id
        /\ \A r \in reagents, r2 \in reagents' : r.id = r2.id => r.user_id = r2.user_id
        /\ \A r2 \in tasks' : r2.id \notin ids(tasks) => r2.id > sqlite_sequence.tasks
        /\ \A r2 \in reagents' :
              r2.id \notin ids(reagents) => r2.id > sqlite_sequence.reagents ]_vars

\* alice updated her reagent while bob's reagent, added before, is stored as
\* he added it
C23_Witness ==
    \E a, b \in Sessions :
        /\ UserOf(a) # UserOf(b)
        /\ msg[a] \in {"Reagent updated!", "Inventory updated successfully!"}
        /\ \E r \in reagents : r.user_id = UserOf(a) /\ r.quantity = 10 /\ r.id = 2
        /\ \E r \in reagents : r.user_id = UserOf(b) /\ r.quantity = 5 /\ r.id = 1

\* C3: an update of an existing reagent of the session user to quantity q,
\* by the update form or by the data editor, makes the listing show q for
\* that id and changes no other reagent row.
C3_UpdateFrame ==
    [][ \A s \in Sessions, id \in ReagentIds :
          (\E r \in reagents : r.id = id /\ r.user_id = UserOf(s)) =>
              \A n \in ReagentNames, q \in Quantities :
                  (UpdateReagent(s, id, n, q) \/ EditorSave(s, id, n, q)) =>
                      /\ \E r \in get_reagents(reagents', UserOf(s)) :
                            r.id = id /\ r.quantity = q
                      /\ \A r \in reagents : r.id # id => r \in reagents' ]_vars

\* C4: a deleted reagent id never comes back, and a delete of an id that is
\* not in the table is not reported as a success and changes nothing.
C4_DeleteNotFound ==
    [][ /\ \A r \in reagents' : r.id <= sqlite_sequence.reagents =>
                                     \E o \in reagents : o.id = r.id
        /\ \A s \in Sessions, id \in ReagentIds :
              (DeleteReagent(s, id) /\ ~\E r \in reagents : r.id = id) =>
                  /\ msg'[s] # "Reagent deleted!"
                  /\ store' = store ]_vars

\* C14: an update, by the update form, of a reagent id that is no longer in
\* the table is not reported as a success and changes no row.
C14_UpdateNotFound ==
    [][ \A s \in Sessions, id \in ReagentIds :
          (~\E r \in reagents : r.id = id) =>
              \A n \in ReagentNames, q \in Quantities :
                  UpdateReagent(s, id, n, q) =>
                      /\ msg'[s] # "Reagent updated!"
                      /\ store' = store ]_vars

\* C30: a save of the data editor with one row edited leaves every other
\* stored row as it is stored, also a row that another session updated
\* after this session read the inventory, and brings back no row that was
\* deleted meanwhile.
C30_EditorSaveFrame ==
    [][ \A s \in Sessions, id \in ReagentIds, n \in ReagentNames, q \in Quantities :
          EditorSave(s, id, n, q) =>
              /\ \A r \in reagents : r.id # id => r \in reagents'
              /\ ids(reagents') \subseteq ids(reagents) ]_vars

\* C19: every stored reagent row has a quantity of 0 or more.
C19_QuantityNonNegative ==
    \A r \in reagents : r.quantity >= 0

\* C5: a mutating repository statement run for session user A never changes
\* or removes a row of another user.
C5_OwnershipChecked ==
    [][ \A s \in Sessions :
          (\/ \E id \in TaskIds : repo_complete_task(s, id) \/ repo_advance_task(s, id)
           \/ \E id \in ReagentIds : repo_delete_reagent(s, id)
           \/ \E id \in ReagentIds, n \in ReagentNames, q \in Quantities :
                 repo_update_reagent(s, id, n, q)) =>
              /\ \A r \in tasks : r.user_id # UserOf(s) => r \in tasks'
              /\ \A r \in reagents : r.user_id # UserOf(s) => r \in reagents' ]_vars

\* C7: acknowledging a weekly task moves its due date by 7 days and leaves
\* it uncompleted; acknowledging a once task completes it and keeps its due
\* date; nothing else in the row and no other row changes.
C7_Acknowledge ==
    [][ \A s \in Sessions, id \in TaskIds :
          (DailyAck(s, id) \/ RecurringAck(s, id)) =>
              /\ \A t \in tasks : t.id # id => t \in tasks'
              /\ \A t \in tasks :
                    (t.id = id /\ t.frequency = "weekly") =>
                        [t EXCEPT !.due_date = strftime(strptime(t.due_date) + 7)] \in tasks'
              /\ \A t \in tasks :
                    (t.id = id /\ t.frequency = "once") =>
                        [t EXCEPT !.completed = TRUE] \in tasks' ]_vars

\* C16: an acknowledgment of a monthly task in the recurring tab sets its
\* due date to the stored due date plus 30 days and changes nothing else of
\* the row, so that an uncompleted task stays uncompleted.
C16_MonthlyAdvance ==
    [][ \A s \in Sessions, id \in TaskIds :
          RecurringAck(s, id) =>
              \A t \in tasks :
                  (t.id = id /\ t.frequency = "monthly") =>
                      [t EXCEPT !.due_date = strftime(strptime(t.due_date) + 30)]
                          \in tasks' ]_vars

\* C29: no acknowledgment of a weekly task is lost: while a weekly task is
\* the only recurring task, its due date is the date it was added with plus
\* 7 days for every acknowledgment made in the recurring tab, however the
\* reads and writes of the sessions interleave.
C29_NoLostAcknowledgment ==
    \A t \in tasks :
        (t.frequency = "weekly"
           /\ \A r \in tasks : r.frequency \in {"weekly", "monthly"} => r = t) =>
            t.due_date = strftime(strptime(<<2024, 12, 28>>) + 7 * advanced)

\* C8: a task whose frequency is daily, weekly or monthly is never completed.
C8_RecurringNeverCompleted ==
    \A t \in tasks : t.frequency \in {"daily", "weekly", "monthly"} => ~t.completed

\* C6: every list and derived view computed for the user of a session holds
\* only rows of that user, however the two users' creates interleave.
C6_ViewsScoped ==
    \A s \in Sessions :
        session_state[s].logged_in =>
            /\ \A f \in Frequencies \cup {""}, c \in BOOLEAN :
                  \A r \in get_tasks(tasks, UserOf(s), f, c) : r.user_id = UserOf(s)
            /\ \A d \in Todays \cup DueDates :
                  /\ \A r \in daily_tasks(tasks, UserOf(s), d) : r.user_id = UserOf(s)
                  /\ \A r \in upcoming_tasks(tasks, UserOf(s), d) : r.user_id = UserOf(s)
            /\ \A r \in get_reagents(reagents, UserOf(s)) : r.user_id = UserOf(s)
            /\ \A r \in low_reagents(reagents, UserOf(s)) : r.user_id = UserOf(s)
            /\ \A r \in recent_experiments(experiments, UserOf(s)) : r.user_id = UserOf(s)

\* both users have rows in the tasks table, and each session lists its own
C6_Witness ==
    \E a, b \in Sessions :
        /\ UserOf(a) # UserOf(b)
        /\ get_tasks(tasks, UserOf(a), "", FALSE) # {}
        /\ get_tasks(tasks, UserOf(b), "", FALSE) # {}
        /\ upcoming_tasks(tasks, UserOf(a), <<2024, 12, 28>>) # {}

====
